---- MODULE Spec2Model ----
(***************************************************************************)
(* Lite-CPG indexing and query engine: the revision store (SQLite), the    *)
(* indexing orchestrator index_repository, the slicing / taint / BFS       *)
(* searches and the tool-layer envelope.                                   *)
(***************************************************************************)
EXTENDS Integers, Sequences, FiniteSets, Bags, TLC

\* ------------------------------------------------------------------ bounds
MaxRuns == 2            \* index_repository calls in one behaviour
MaxEdges == 2           \* edges of a searched graph
MaxCriteria == 2        \* length of a criteria list
MaxSteps == 3            \* largest max_steps argument tried
MaxSites == 1            \* call sites per source / sink / sanitizer set
MaxDepth == 2           \* directory nesting below the scanned root
MaxFiles == 2           \* files in a scanned working tree
MaxStmts == 2           \* top-level statements of a python module
MaxPuts == 3            \* put_file_artifacts calls made directly on a store
MaxN == 2               \* largest max_nodes / max_steps / max_paths argument tried

\* --------------------------------------------------------------- universe
NULL == <<>>            \* SQL NULL / Python None
NoFile == "absent"      \* a path that does not exist in the working tree
Revs == {"base", "head"}
SortedPaths == <<"a.py", "b.py">>
Paths == {SortedPaths[i] : i \in 1..Len(SortedPaths)}
Contents == {"helper_py", "main_py", "mixed_py", "deep_py"}
\* a tree that also holds a TypeScript file
TsSortedPaths == <<"c.ts">>
TsContents == {"main_ts", "arrow_ts"}
MixedPaths == Paths \cup {TsSortedPaths[i] : i \in 1..Len(TsSortedPaths)}

VARIABLES
  repo,        \* working tree: path -> file content (or NoFile)
  db,          \* the writer connection's view of the database
  committed,   \* the committed database content (what other connections read)
  pc,          \* position of index_repository
  todo,        \* scanned paths not yet processed by the running call
  cur,         \* parameters and bookkeeping of the running call
  prev,        \* revision label of the last call, if it committed and the tree is unchanged since
  obs,         \* what the last step did (the observable outcome of the call)
  store_blobs, \* the caller's store_blobs setting
  nruns,       \* number of index_repository calls started
  sg,          \* arguments of the graph search under way (graph, criteria, options)
  ss           \* local variables of the graph search under way

vars == <<repo, db, committed, pc, todo, cur, prev, obs, store_blobs, nruns, sg, ss>>
idxvars == <<repo, db, committed, pc, todo, cur, prev, obs, store_blobs, nruns>>
srchvars == <<sg, ss>>

\* ------------------------------------------------------ generic helpers
Range(s) == {s[i] : i \in 1..Len(s)}

RECURSIVE SeqToBag(_)
SeqToBag(s) == IF s = <<>> THEN EmptyBag ELSE SetToBag({Head(s)}) (+) SeqToBag(Tail(s))

\* rows of bag b that satisfy P, with their multiplicities
BagSelect(b, P(_)) == [e \in {x \in BagToSet(b) : P(x)} |-> b[e]]

\* ------------------------------------------------- repo/versioning.py
content_hash(c) ==
  CASE c = "helper_py" -> "h1"
    [] c = "main_py"   -> "h2"
    [] c = "mixed_py"  -> "h3"
    [] c = "deep_py"   -> "h4"
    [] c = "handler_ts" -> "h5"
    [] c = "callx_ts"  -> "h6"
    [] c = "arrow_ts"  -> "h7"
    [] c = "main_ts"   -> "h8"

\* ------------------------------------------------------- repo/scan.py
\* EXT_TO_LANG.get(path.suffix.lower()) on the paths above
infer_language(path) == IF path \in Range(TsSortedPaths) THEN "typescript" ELSE "python"

\* the files of one language, `sorted(results[lang], key=lambda p: str(p))`
lang_group(r, paths) == SelectSeq(paths, LAMBDA p : p \in DOMAIN r /\ r[p] # NoFile)

\* the grouped result in the order the loops of index_repository walk it, the python
\* group first
scan_repo(r) == lang_group(r, SortedPaths) \o lang_group(r, TsSortedPaths)

\* files_by_lang.items() yields the languages in the order rglob met them, which is
\* the directory order of the file system: either group may come first
scan_repo_items(r) ==
  {scan_repo(r), lang_group(r, TsSortedPaths) \o lang_group(r, SortedPaths)}

\* -------------------------------------- the parse tree (tree-sitter output)
TN(pos, type, name, parent) == [pos |-> pos, type |-> type, name |-> name, parent |-> parent]

\* preorder list of syntax nodes of each content; pos stands for the byte range
Tree(c) ==
  CASE c = "helper_py" ->   \* def helper(): return 1
         << TN(0, "module", "", -1),
            TN(1, "function_definition", "helper", 0),
            TN(2, "return_statement", "", 1) >>
    [] c = "main_py" ->     \* def main(): return helper()
         << TN(0, "module", "", -1),
            TN(1, "function_definition", "main", 0),
            TN(2, "return_statement", "", 1),
            TN(3, "call", "helper", 2) >>
    [] c = "mixed_py" ->    \* def helper(): return other()  /  helper()
         << TN(0, "module", "", -1),
            TN(1, "function_definition", "helper", 0),
            TN(2, "return_statement", "", 1),
            TN(3, "call", "other", 2),
            TN(4, "expression_statement", "", 0),
            TN(5, "call", "helper", 4) >>
    [] c = "deep_py" ->     \* expression nested deeper than the recursion limit
         << TN(0, "module", "", -1) >>
    [] c = "handler_ts" ->  \* const x = getHandler(); x();
         << TN(0, "program", "", -1),
            TN(1, "lexical_declaration", "", 0),
            TN(2, "variable_declarator", "x", 1),
            TN(3, "call_expression", "getHandler", 2),
            TN(4, "expression_statement", "", 0),
            TN(5, "call_expression", "x", 4) >>
    [] c = "callx_ts" ->    \* x();
         << TN(0, "program", "", -1),
            TN(1, "expression_statement", "", 0),
            TN(2, "call_expression", "x", 1) >>
    [] c = "arrow_ts" ->    \* const x = () => 1;
         << TN(0, "program", "", -1),
            TN(1, "lexical_declaration", "", 0),
            TN(2, "variable_declarator", "x", 1),
            TN(3, "arrow_function", "", 2) >>
    [] c = "main_ts" ->     \* function main() { return helper(); }
         << TN(0, "program", "", -1),
            TN(1, "function_declaration", "main", 0),
            TN(2, "return_statement", "", 1),
            TN(3, "call_expression", "helper", 2) >>

\* flatten_ts recurses once per nesting level: RecursionError on deep_py
BuildRaises(c) == c = "deep_py"

DECL_KINDS == {"function_definition", "class_definition", "function_declaration"}
DECL_NODE_TYPES == {"function_definition", "function_declaration", "variable_declarator"}
CALL_NODE_TYPES == {"call", "call_expression"}
CONTROL_KINDS == {"if_statement"}
StatementTypes == {"return_statement", "expression_statement", "if_statement"}

is_statement(n) == n.type \in StatementTypes

block_id(id_prefix, n) == <<id_prefix, n.pos>>

\* ---------------------------------------------------- core/ast_utils.py
flatten_ts_nodes(c, id_prefix) == {block_id(id_prefix, n) : n \in Range(Tree(c))}

flatten_ts_edges(c, id_prefix) ==
  LET t == Tree(c) IN
  SeqToBag([i \in 1..(Len(t) - 1) |->
             [src |-> <<id_prefix, t[i + 1].parent>>, dst |-> <<id_prefix, t[i + 1].pos>>, kind |-> "AST"]])

\* ---------------------------------------------------------- core/cfg.py
build_cfg(c, id_prefix) ==
  LET t == Tree(c)
      basic_blocks == SelectSeq(t, is_statement)
      seqEdges == [i \in 1..(Len(basic_blocks) - 1) |->
                    [src |-> block_id(id_prefix, basic_blocks[i]),
                     dst |-> block_id(id_prefix, basic_blocks[i + 1]), kind |-> "CFG"]]
      branch == {[src |-> block_id(id_prefix, b), dst |-> block_id(id_prefix, ch), kind |-> "CFG_BRANCH"] :
                   <<b, ch>> \in {<<x, y>> \in Range(t) \X Range(t) :
                                     /\ x.type \in CONTROL_KINDS
                                     /\ y.parent = x.pos
                                     /\ is_statement(y)}}
  IN SeqToBag(seqEdges) (+) SetToBag(branch)

\* -------------------------------------------------- core/symbol_index.py
\* _has_function_initializer: a child that is a function expression
has_function_initializer(c, n) ==
  \E ch \in Range(Tree(c)) :
    ch.parent = n.pos /\ ch.type \in {"arrow_function", "function", "function_expression"}

collect_symbols(c, lang, id_prefix) ==
  LET decl == SelectSeq(Tree(c), LAMBDA n :
                 \/ n.type \in DECL_KINDS /\ n.name # ""
                 \/ /\ n.type \notin DECL_KINDS
                    /\ lang = "typescript" /\ n.type = "variable_declarator"
                    /\ n.name # "" /\ has_function_initializer(c, n))
  IN [i \in 1..Len(decl) |->
        [id |-> block_id(id_prefix, decl[i]), name |-> decl[i].name, lang |-> lang]]

\* -------------------------------------------------------- core/calls.py
extract_calls_edges(c, id_prefix) ==
  LET calls == SelectSeq(Tree(c), LAMBDA n : n.type \in CALL_NODE_TYPES /\ n.name # "")
  IN [i \in 1..Len(calls) |-> [src |-> block_id(id_prefix, calls[i]), dst |-> calls[i].name]]

extract_calls_decls(c, lang, id_prefix) ==
  LET decl == SelectSeq(Tree(c), LAMBDA n : n.type \in DECL_NODE_TYPES /\ n.name # "")
  IN [i \in 1..Len(decl) |->
        [id |-> block_id(id_prefix, decl[i]), name |-> decl[i].name, lang |-> lang]]

\* ------------------------------------------------------ core/builder.py
\* SymbolIndex.resolve_name: ids declared under that name, in insertion order
resolve_name(symseq, name, lang) ==
  SelectSeq(symseq, LAMBDA s : s.name = name /\ s.lang = lang)

\* LiteCPGBuilder.build([pf], interprocedural=False) for one parsed file
build(c, lang, blob_hash) ==
  LET pass1 == collect_symbols(c, lang, blob_hash)
      decls == extract_calls_decls(c, lang, blob_hash)
      extra == SelectSeq(decls, LAMBDA d : \A i \in 1..Len(pass1) : pass1[i].id # d.id)
      symseq == pass1 \o extra
      raw == extract_calls_edges(c, blob_hash)
      call_graph == [i \in 1..Len(raw) |->
                       LET cand == resolve_name(symseq, raw[i].dst, lang)
                       IN IF cand # <<>>
                            THEN [src |-> raw[i].src, dst |-> cand[1].id, unresolved |-> FALSE,
                                  name |-> cand[1].name]
                            ELSE [src |-> raw[i].src, dst |-> NULL, unresolved |-> TRUE,
                                  name |-> raw[i].dst]]
  IN [nodes |-> flatten_ts_nodes(c, blob_hash),
      edges |-> flatten_ts_edges(c, blob_hash) (+) build_cfg(c, blob_hash),
      symbols |-> Range(symseq),
      call_graph |-> call_graph]

\* --------------------------------------------- store/backends/sqlite.py
EmptyDb ==
  [revisions |-> {}, files |-> {}, file_versions |-> {}, blobs |-> {},
   nodes |-> {}, edges |-> EmptyBag, symbols |-> {}, calls |-> EmptyBag]

\* the replaced revisions row without the cascade to file_versions
begin_revision_keep(d, rev, base_rev, now) ==
  [d EXCEPT !.revisions = {r \in @ : r.rev # rev}
                            \cup {[rev |-> rev, base_rev |-> base_rev, created_at |-> now]}]

\* INSERT OR REPLACE INTO revisions; the replaced row's file_versions go with it
\* (FOREIGN KEY(rev) ... ON DELETE CASCADE, PRAGMA foreign_keys=ON)
begin_revision(d, rev, base_rev, now) ==
  LET existed == \E r \in d.revisions : r.rev = rev IN
  [d EXCEPT !.revisions = {r \in @ : r.rev # rev}
                            \cup {[rev |-> rev, base_rev |-> base_rev, created_at |-> now]},
            !.file_versions = IF existed THEN {fv \in @ : fv.rev # rev} ELSE @]

FileIdOf(d, path) == (CHOOSE f \in d.files : f.path = path).file_id

upsert_file(d, path, lang) ==
  IF \E f \in d.files : f.path = path
    THEN [d EXCEPT !.files = {IF f.path = path THEN [f EXCEPT !.lang = lang] ELSE f : f \in @}]
    ELSE [d EXCEPT !.files = @ \cup {[file_id |-> Cardinality(d.files) + 1, path |-> path, lang |-> lang]}]

upsert_file_version(d, rev, file_id, blob_hash) ==
  [d EXCEPT !.file_versions = {fv \in @ : ~(fv.rev = rev /\ fv.file_id = file_id)}
                                \cup {[rev |-> rev, file_id |-> file_id, blob_hash |-> blob_hash]}]

upsert_blob(d, blob_hash) == [d EXCEPT !.blobs = @ \cup {blob_hash}]

\* the gate forgotten: every file is parsed and written again
has_blob_artifacts_nogate(d, blob_hash) == FALSE

has_blob_artifacts(d, blob_hash) == \E n \in d.nodes : n.blob_hash = blob_hash

\* the calls tuples index_repository derives from cpg.call_graph
CallTuples(cpg) ==
  [i \in 1..Len(cpg.call_graph) |->
     LET ce == cpg.call_graph[i] IN
     IF ce.unresolved
       THEN [src_node |-> ce.src, dst_name |-> ce.name, dst_symbol |-> NULL, resolved |-> 0]
       ELSE [src_node |-> ce.src, dst_name |-> ce.name, dst_symbol |-> ce.dst, resolved |-> 1]]

\* multiplicity-preserving image of a bag under f
RECURSIVE SumCounts(_, _)
SumCounts(b, S) ==
  IF S = {} THEN 0 ELSE LET x == CHOOSE y \in S : TRUE IN b[x] + SumCounts(b, S \ {x})

BagMap(b, f(_)) ==
  [y \in {f(x) : x \in BagToSet(b)} |-> SumCounts(b, {x \in BagToSet(b) : f(x) = y})]

put_file_artifacts(d, file_id, blob_hash, lang, cpg, calls) ==
  LET newNodes == {[node_id |-> n, blob_hash |-> blob_hash, file_id |-> file_id] : n \in cpg.nodes}
      keptNodes == {n \in newNodes : \A o \in d.nodes : o.node_id # n.node_id}   \* INSERT OR IGNORE
      edgeRows == BagMap(cpg.edges, LAMBDA e : [blob_hash |-> blob_hash, file_id |-> file_id,
                                                src |-> e.src, dst |-> e.dst, kind |-> e.kind])
      symRows == {[symbol_id |-> s.id, blob_hash |-> blob_hash, file_id |-> file_id,
                   lang |-> s.lang, name |-> s.name] : s \in cpg.symbols}
      callRows == SeqToBag([i \in 1..Len(calls) |->
                    [blob_hash |-> blob_hash, file_id |-> file_id, src_node |-> calls[i].src_node,
                     dst_name |-> calls[i].dst_name, dst_symbol |-> calls[i].dst_symbol,
                     resolved |-> calls[i].resolved]])
  IN [d EXCEPT
        !.nodes = @ \cup keptNodes,
        !.edges = @ (+) edgeRows,                                                   \* plain INSERT
        !.symbols = {s \in @ : \A n \in symRows : n.symbol_id # s.symbol_id} \cup symRows,  \* OR REPLACE
        !.calls = @ (+) callRows]                                                   \* plain INSERT

\* ORDER BY symbol_id ASC on the text "<hash>:<start>-<end>"
HashRank(h) == CASE h = "h1" -> 1 [] h = "h2" -> 2 [] h = "h3" -> 3 [] h = "h4" -> 4
                 [] h = "h5" -> 5 [] h = "h6" -> 6 [] h = "h7" -> 7 [] h = "h8" -> 8
SymIdLess(a, b) == \/ HashRank(a[1]) < HashRank(b[1])
                   \/ (a[1] = b[1] /\ a[2] < b[2])

\* SELECT s.symbol_id FROM symbols s WHERE s.name = ? ORDER BY s.symbol_id ASC LIMIT 1
FirstSymbolByName(d, name) ==
  LET ids == {s.symbol_id : s \in {x \in d.symbols : x.name = name}}
  IN IF ids = {} THEN NULL ELSE CHOOSE i \in ids : \A j \in ids \ {i} : SymIdLess(i, j)

\* the UPDATE with its WHERE clause inverted: unresolved rows are never revisited
resolve_calls_update_inverted(d) ==
  [d EXCEPT !.calls =
     BagMap(@, LAMBDA c :
       IF c.resolved = 1
         THEN [c EXCEPT !.dst_symbol = FirstSymbolByName(d, c.dst_name),
                        !.resolved = IF FirstSymbolByName(d, c.dst_name) = NULL THEN 0 ELSE 1]
         ELSE c)]

\* resolve_calls, first statement: UPDATE calls SET dst_symbol=..., resolved=... WHERE resolved = 0
resolve_calls_update(d) ==
  [d EXCEPT !.calls =
     BagMap(@, LAMBDA c :
       IF c.resolved = 0
         THEN [c EXCEPT !.dst_symbol = FirstSymbolByName(d, c.dst_name),
                        !.resolved = IF FirstSymbolByName(d, c.dst_name) = NULL THEN 0 ELSE 1]
         ELSE c)]

DerivedKinds == {"CFG_IP_CALL", "CFG_IP_RET", "CALL"}

\* the DELETE forgotten: derived edges pile up call after call
resolve_calls_delete_none(d) == d

\* resolve_calls, second statement: DELETE FROM edges WHERE kind IN (derived kinds)
resolve_calls_delete(d) ==
  [d EXCEPT !.edges = BagSelect(@, LAMBDA e : e.kind \notin DerivedKinds)]

\* the INSERTs without the one for CFG_IP_RET
resolve_calls_insert_noret(d) ==
  LET res == BagSelect(d.calls, LAMBDA c : c.resolved = 1 /\ c.dst_symbol # NULL)
      ipCall == BagMap(res, LAMBDA c : [blob_hash |-> c.blob_hash, file_id |-> c.file_id,
                                        src |-> c.src_node, dst |-> c.dst_symbol, kind |-> "CFG_IP_CALL"])
      call == BagMap(res, LAMBDA c : [blob_hash |-> c.blob_hash, file_id |-> c.file_id,
                                      src |-> c.src_node, dst |-> c.dst_symbol, kind |-> "CALL"])
  IN [d EXCEPT !.edges = @ (+) ipCall (+) call]

\* resolve_calls, the three INSERT ... SELECT FROM calls WHERE resolved = 1 AND
\* dst_symbol IS NOT NULL
resolve_calls_insert(d) ==
  LET res == BagSelect(d.calls, LAMBDA c : c.resolved = 1 /\ c.dst_symbol # NULL)
      ipCall == BagMap(res, LAMBDA c : [blob_hash |-> c.blob_hash, file_id |-> c.file_id,
                                        src |-> c.src_node, dst |-> c.dst_symbol, kind |-> "CFG_IP_CALL"])
      ipRet == BagMap(res, LAMBDA c : [blob_hash |-> c.blob_hash, file_id |-> c.file_id,
                                       src |-> c.dst_symbol, dst |-> c.src_node, kind |-> "CFG_IP_RET"])
      call == BagMap(res, LAMBDA c : [blob_hash |-> c.blob_hash, file_id |-> c.file_id,
                                      src |-> c.src_node, dst |-> c.dst_symbol, kind |-> "CALL"])
  IN [d EXCEPT !.edges = @ (+) ipCall (+) ipRet (+) call]

\* resolve_calls, remaining statements: DELETE the derived edges, INSERT them from calls
resolve_calls_rebuild(d) == resolve_calls_insert(resolve_calls_delete(d))

resolve_calls(d) == resolve_calls_rebuild(resolve_calls_update(d))

\* LiteCPGStore.stats
stats(d) ==
  [files |-> Cardinality(d.files), file_versions |-> Cardinality(d.file_versions),
   blobs |-> Cardinality(d.blobs), nodes |-> Cardinality(d.nodes),
   edges |-> BagCardinality(d.edges), symbols |-> Cardinality(d.symbols),
   calls |-> BagCardinality(d.calls)]

\* ------------------------------------------------- index_repository, stepwise
NoRun == [rev |-> NULL, files_done |-> 0, repeat |-> FALSE]
NoObs == [kind |-> "none"]
NoSearch == [alg |-> "none"]

\* the row counts the idempotence property is about
RowCounts(d) ==
  [nodes |-> Cardinality(d.nodes), edges |-> BagCardinality(d.edges),
   symbols |-> Cardinality(d.symbols), calls |-> BagCardinality(d.calls)]

\* `with store.conn:` entered; begin_revision; scan_repo
\* time.time() is read once per call; a later call reads a later time
BeginIndex(rev) ==
  /\ pc = "idle"
  /\ nruns < MaxRuns
  /\ db' = begin_revision(db, rev, IF rev = "head" THEN "base" ELSE NULL, nruns + 1)
  /\ todo' \in scan_repo_items(repo)
  /\ cur' = [rev |-> rev, files_done |-> 0, repeat |-> (prev = rev)]
  /\ pc' = "files"
  /\ nruns' = nruns + 1
  /\ obs' = NoObs
  /\ prev' = NULL
  /\ UNCHANGED <<repo, committed, store_blobs, sg, ss>>

\* no rollback: the connection keeps what the failed call wrote
Rollback_keep(d, c) == d

\* the exception leaves `with store.conn:`, which rolls the transaction back
Rollback(d, c) == c

\* the call ends with an exception raised at position `at`
Raise(at, parse_failed) ==
  /\ db' = Rollback(db, committed)
  /\ committed' = committed
  /\ pc' = "idle"
  /\ todo' = <<>>
  /\ obs' = [kind |-> "run", status |-> "raised", at |-> at, rev |-> cur.rev,
             files_done |-> cur.files_done, parse_failed |-> parse_failed,
             repeat |-> cur.repeat, before |-> committed]
  /\ cur' = NoRun
  /\ prev' = NULL

\* one iteration of `for path in paths:`
IndexFile ==
  /\ pc = "files"
  /\ todo # <<>>
  /\ LET path == Head(todo)
         src == repo[path]
         blob_hash == content_hash(src)
         lang_n == infer_language(path)
         d1 == upsert_file(db, path, lang_n)
         file_id == FileIdOf(d1, path)
         d2 == upsert_file_version(d1, cur.rev, file_id, blob_hash)
         d3 == IF store_blobs THEN upsert_blob(d2, blob_hash) ELSE d2
         seen == [kind |-> "file", rev |-> cur.rev, blob_hash |-> blob_hash, file_id |-> file_id,
                  nodes_before |-> {n \in db.nodes : n.blob_hash = blob_hash}]
     IN IF has_blob_artifacts(d3, blob_hash)
          THEN \* continue
               /\ db' = d3
               /\ obs' = seen @@ [parsed |-> FALSE, put |-> FALSE]
               /\ todo' = Tail(todo)
               /\ cur' = [cur EXCEPT !.files_done = @ + 1]
               /\ UNCHANGED <<committed, pc, prev>>
          ELSE IF BuildRaises(src)
                 THEN \* parser.parse / builder.build raise; nothing catches it
                      Raise("build", TRUE)
                 ELSE LET cpg == build(src, lang_n, blob_hash) IN
                      /\ db' = put_file_artifacts(d3, file_id, blob_hash, lang_n, cpg, CallTuples(cpg))
                      /\ obs' = seen @@ [parsed |-> TRUE, put |-> TRUE]
                      /\ todo' = Tail(todo)
                      /\ cur' = [cur EXCEPT !.files_done = @ + 1]
                      /\ UNCHANGED <<committed, pc, prev>>
  /\ UNCHANGED <<repo, store_blobs, nruns, sg, ss>>

\* store.resolve_calls(), the UPDATE
ResolveCallsUpdate ==
  /\ pc = "files"
  /\ todo = <<>>
  /\ db' = resolve_calls_update(db)
  /\ pc' = "rebuild"
  /\ obs' = NoObs
  /\ UNCHANGED <<repo, committed, todo, cur, prev, store_blobs, nruns, sg, ss>>

\* store.resolve_calls(), the DELETE of the derived edges
ResolveCallsDelete ==
  /\ pc = "rebuild"
  /\ db' = resolve_calls_delete(db)
  /\ pc' = "insert"
  /\ UNCHANGED <<repo, committed, todo, cur, prev, obs, store_blobs, nruns, sg, ss>>

\* store.resolve_calls(), the three INSERTs
ResolveCallsInsert ==
  /\ pc = "insert"
  /\ db' = resolve_calls_insert(db)
  /\ pc' = "commit"
  /\ UNCHANGED <<repo, committed, todo, cur, prev, obs, store_blobs, nruns, sg, ss>>

\* `with store.conn:` left normally: commit; return store.stats()
Commit ==
  /\ pc = "commit"
  /\ committed' = db
  /\ pc' = "idle"
  /\ obs' = [kind |-> "run", status |-> "committed", at |-> "end", rev |-> cur.rev,
             files_done |-> cur.files_done, parse_failed |-> FALSE,
             repeat |-> cur.repeat, before |-> committed]
  /\ prev' = cur.rev
  /\ cur' = NoRun
  /\ UNCHANGED <<repo, db, todo, store_blobs, nruns, sg, ss>>

\* an I/O or database error (read_bytes, stat, a failing statement) inside the block
Fail ==
  /\ pc \in {"files", "rebuild", "insert"}
  /\ Raise(IF pc = "files" THEN "files" ELSE "resolve_calls", FALSE)
  /\ UNCHANGED <<repo, store_blobs, nruns, sg, ss>>

\* the working tree changes between two calls
EditRepo(path, content) ==
  /\ pc = "idle"
  /\ repo[path] # content
  /\ 0 < nruns /\ nruns < MaxRuns
  /\ repo' = [repo EXCEPT ![path] = content]
  /\ prev' = NULL
  /\ obs' = NoObs
  /\ UNCHANGED <<db, committed, pc, todo, cur, store_blobs, nruns, sg, ss>>

Init ==
  /\ repo \in [Paths -> Contents \cup {NoFile}]
  /\ db = EmptyDb
  /\ committed = EmptyDb
  /\ pc = "idle"
  /\ todo = <<>>
  /\ cur = NoRun
  /\ prev = NULL
  /\ obs = NoObs
  /\ store_blobs \in BOOLEAN
  /\ nruns = 0
  /\ sg = NoSearch
  /\ ss = NoSearch

Next ==
  \/ \E rev \in Revs : BeginIndex(rev)
  \/ IndexFile
  \/ ResolveCallsUpdate
  \/ ResolveCallsDelete
  \/ ResolveCallsInsert
  \/ Commit
  \/ Fail
  \/ \E path \in Paths, content \in Contents \cup {NoFile} : EditRepo(path, content)

Spec == Init /\ [][Next]_vars

\* ------------------------------------------- index_repository on a mixed tree
\* the content a path may hold: its own language's source text
ContentsOf(path) == IF infer_language(path) = "typescript" THEN TsContents ELSE Contents

InitMixed ==
  /\ repo \in {r \in [MixedPaths -> Contents \cup TsContents \cup {NoFile}] :
                 \A p \in MixedPaths : r[p] \in ContentsOf(p) \cup {NoFile}}
  /\ db = EmptyDb
  /\ committed = EmptyDb
  /\ pc = "idle"
  /\ todo = <<>>
  /\ cur = NoRun
  /\ prev = NULL
  /\ obs = NoObs
  /\ store_blobs = FALSE
  /\ nruns = 0
  /\ sg = NoSearch
  /\ ss = NoSearch

NextMixed ==
  \/ \E rev \in Revs : BeginIndex(rev)
  \/ IndexFile
  \/ ResolveCallsUpdate
  \/ ResolveCallsDelete
  \/ ResolveCallsInsert
  \/ Commit
  \/ Fail
  \/ \E path \in MixedPaths : \E content \in ContentsOf(path) \cup {NoFile} : EditRepo(path, content)

SpecMixed == InitMixed /\ [][NextMixed]_vars

TypeOK ==
  /\ pc \in {"idle", "files", "rebuild", "insert", "commit"}
  /\ pc = "idle" => db = committed

\* --------------------------------------------------------------- tool layer
Omitted == "<None>"                       \* the rev argument left at its default None
RevArgs == {Omitted, "", "base", "head"}
DbPaths == {"cpg.sqlite", "/"}            \* the indexed database; a path sqlite cannot open
Queries == {"helper"}

\* models.ok / models.fail
ok(data) == [ok |-> TRUE, data |-> data]
fail(message, details) == [ok |-> FALSE, error |-> [message |-> message, details |-> details]]

\* store_helpers.get_latest_rev: ORDER BY created_at DESC LIMIT 1
get_latest_rev(d) ==
  IF d.revisions = {} THEN NULL
  ELSE (CHOOSE r \in d.revisions : \A o \in d.revisions : o.created_at <= r.created_at).rev

\* the selector falling back to the latest revision when the named one is unknown
require_rev_fallback(d, rev) ==
  IF rev \notin {Omitted, ""} /\ (\E r \in d.revisions : r.rev = rev)
    THEN [raised |-> FALSE, rev |-> rev]
  ELSE IF d.revisions = {}                 \* get_latest_rev found no row
    THEN [raised |-> TRUE, error |-> "No revisions found"]
  ELSE [raised |-> FALSE, rev |-> get_latest_rev(d)]

\* store_helpers.require_rev: `if rev:` is false for None and for ""
require_rev(d, rev) ==
  IF rev \notin {Omitted, ""}
    THEN IF \E r \in d.revisions : r.rev = rev
           THEN [raised |-> FALSE, rev |-> rev]
           ELSE [raised |-> TRUE, error |-> "Unknown rev"]
  ELSE IF d.revisions = {}                 \* get_latest_rev found no row
    THEN [raised |-> TRUE, error |-> "No revisions found"]
  ELSE [raised |-> FALSE, rev |-> get_latest_rev(d)]

\* open_store = LiteCPGStore(Path(db_path)): sqlite3.connect, then _ensure_schema,
\* whose INSERT OR IGNORE INTO meta needs the write lock an indexing run holds from
\* begin_revision to commit or rollback
open_store(db_path) ==
  IF db_path = "/" THEN [raised |-> TRUE, error |-> "unable to open database file"]
  ELSE IF pc # "idle" THEN [raised |-> TRUE, error |-> "database is locked"]
  ELSE [raised |-> FALSE]

\* s.name LIKE '%query%'
name_like(name, query) == name = query \/ (query = "elp" /\ name = "helper")

\* JOIN file_versions fv ON fv.file_id = x.file_id AND fv.blob_hash = x.blob_hash
\* WHERE fv.rev = ?
VisibleAt(d, r, x) ==
  \E fv \in d.file_versions : fv.rev = r /\ fv.file_id = x.file_id /\ fv.blob_hash = x.blob_hash

\* symbol_search._fetch_symbols
fetch_symbols(d, r, query, allow_like) ==
  {x \in d.symbols : VisibleAt(d, r, x)
                     /\ IF allow_like THEN name_like(x.name, query) ELSE x.name = query}

\* the body of symbol_search's try block, after require_rev
symbol_search_body(d, r, query) ==
  LET exact == fetch_symbols(d, r, query, FALSE)
      hits == IF exact = {} THEN fetch_symbols(d, r, query, TRUE) ELSE exact
      names == {h.name : h \in hits}
      sites == {c.src_node : c \in {x \in BagToSet(d.calls) : VisibleAt(d, r, x) /\ x.dst_name \in names}}
      located == {n \in sites : \E row \in d.nodes : row.node_id = n}
  IN ok([rev |-> r, query |-> query, symbols |-> {h.symbol_id : h \in hits}, callsites |-> located])

\* cpg_tools.symbol_search: open_store sits before the try block, so what it raises
\* leaves the function; what require_rev raises is turned into a fail envelope
symbol_search(db_path) ==
  /\ LET st == open_store(db_path)
     IN IF st.raised
          THEN obs' = [kind |-> "tool", outcome |-> "exception", error |-> st.error]
          ELSE \E rev \in RevArgs, query \in Queries :
                 LET r == require_rev(committed, rev)
                 IN obs' = [kind |-> "tool", outcome |-> "returned", rev_arg |-> rev,
                            result |-> IF r.raised
                                         THEN fail("symbol_search failed", r.error)
                                         ELSE symbol_search_body(committed, r.rev, query)]
  /\ UNCHANGED <<repo, db, committed, pc, todo, cur, prev, store_blobs, nruns, sg, ss>>

NextTools ==
  \/ Next
  \/ \E db_path \in DbPaths : symbol_search(db_path)

\* the tool reads revisions, file_versions, symbols, calls and nodes, never blobs
InitTools == Init /\ ~store_blobs

SpecTools == InitTools /\ [][NextTools]_vars

\* ------------------------------------------------- a second connection reads
\* a connection without isolation: it would read what the writer has not committed
ReaderSnapshot_dirty(d, c) == d

\* PRAGMA journal_mode=WAL: a SELECT on another connection reads the last committed
\* state of the file; the writer's pages stay invisible until its COMMIT
ReaderSnapshot(d, c) == c

\* a query (LiteCPGStore.stats, neighbors_multi, a tool's SELECT) on a connection
\* that was opened before the indexing run took the write lock
ReaderQuery ==
  /\ nruns > 0
  /\ obs.kind # "read"
  /\ obs' = [kind |-> "read", during |-> pc, run |-> nruns,
             snapshot |-> ReaderSnapshot(db, committed)]
  /\ UNCHANGED <<repo, db, committed, pc, todo, cur, prev, store_blobs, nruns, sg, ss>>

NextReaders ==
  \/ Next
  \/ ReaderQuery

SpecReaders == InitTools /\ [][NextReaders]_vars

\* ------------------------------------------- a second indexing run, concurrently
\* index_repository on another connection while a run holds the write lock: nothing
\* takes an advisory file lock first, so its first statement (begin_revision's INSERT
\* OR REPLACE) meets sqlite's write lock; sqlite retries for the connection's busy
\* timeout (sqlite3.connect's default, 5 seconds) and then the statement raises
\* OperationalError, which leaves index_repository
BeginIndexBusy(rev) ==
  /\ pc # "idle"
  /\ \E outcome \in {"waiting", "raised"} :
       obs' = [kind |-> "run2", status |-> outcome, rev |-> rev, holder |-> cur.rev,
               error |-> IF outcome = "raised" THEN "database is locked" ELSE "",
               written |-> 0]
  /\ UNCHANGED <<repo, db, committed, pc, todo, cur, prev, store_blobs, nruns, sg, ss>>

NextWriters ==
  \/ Next
  \/ \E rev \in Revs : BeginIndexBusy(rev)

SpecWriters == InitTools /\ [][NextWriters]_vars

\* ------------------------------------------------------ graphs to be searched
Nodes == {"n1", "n2", "n3"}
Kinds == {"DDG", "AST"}
EdgeUniverse == [src : Nodes, dst : Nodes, kind : Kinds]
Graphs == {E \in SUBSET EdgeUniverse : Cardinality(E) <= MaxEdges}
CriteriaLists == UNION {[1..k -> Nodes] : k \in 0..MaxCriteria}
Directions == {"out", "in"}

Min(a, b) == IF a <= b THEN a ELSE b

\* the orders in which a query may return a set of rows
Orderings(S) == {o \in [1..Cardinality(S) -> S] : \A i, j \in DOMAIN o : i # j => o[i] # o[j]}

\* the index-side variables of a behaviour that only searches
IdxIdle ==
  /\ repo = [p \in Paths |-> NoFile]
  /\ db = EmptyDb
  /\ committed = EmptyDb
  /\ pc = "idle"
  /\ todo = <<>>
  /\ cur = NoRun
  /\ prev = NULL
  /\ obs = NoObs
  /\ store_blobs = FALSE
  /\ nruns = 0

\* ------------------------------------------- the store's methods called directly
\* LiteCPGBuilder.build(..., interprocedural=True): a CFG_IP_CALL and a CFG_IP_RET
\* edge for every call edge resolved within the file
interprocedural_edges(cpg) ==
  LET res == SelectSeq(cpg.call_graph, LAMBDA ce : ~ce.unresolved)
  IN SeqToBag([i \in 1..Len(res) |-> [src |-> res[i].src, dst |-> res[i].dst, kind |-> "CFG_IP_CALL"]])
     (+) SeqToBag([i \in 1..Len(res) |-> [src |-> res[i].dst, dst |-> res[i].src, kind |-> "CFG_IP_RET"]])

\* upsert_file, then put_file_artifacts with the graph built for one file
StorePut(path, content, interprocedural) ==
  /\ sg.alg = "store_api" /\ ss.pc = "calls" /\ ss.puts < MaxPuts
  /\ ~BuildRaises(content)
  /\ LET blob_hash == content_hash(content)
         lang_n == infer_language(path)
         d1 == upsert_file(db, path, lang_n)
         built == build(content, lang_n, blob_hash)
         cpg == IF interprocedural
                  THEN [built EXCEPT !.edges = @ (+) interprocedural_edges(built)]
                  ELSE built
     IN db' = put_file_artifacts(d1, FileIdOf(d1, path), blob_hash, lang_n, cpg, CallTuples(cpg))
  /\ ss' = [ss EXCEPT !.puts = @ + 1]
  /\ obs' = [kind |-> "put"]
  /\ UNCHANGED <<repo, committed, pc, todo, cur, prev, store_blobs, nruns, sg>>

\* LiteCPGStore.resolve_calls()
StoreResolveCalls ==
  /\ sg.alg = "store_api" /\ ss.pc = "calls"
  /\ db' = resolve_calls(db)
  /\ obs' = [kind |-> "resolve_calls", before |-> db]
  /\ UNCHANGED <<repo, committed, pc, todo, cur, prev, store_blobs, nruns, sg, ss>>

InitStore ==
  /\ IdxIdle
  /\ sg = [alg |-> "store_api"]
  /\ ss = [pc |-> "calls", puts |-> 0]

NextStore ==
  \/ \E path \in Paths, content \in Contents, interprocedural \in BOOLEAN :
       StorePut(path, content, interprocedural)
  \/ StoreResolveCalls

SpecStore == InitStore /\ [][NextStore]_vars

\* ------------------------------------- LiteCPGBuilder.build on several parsed files
BuildContents == {"helper_py", "main_py", "mixed_py", "handler_ts", "callx_ts", "arrow_ts", "main_ts"}

\* ParsedFile.lang of each content (parse_files is called per language)
lang_of(c) == IF c \in {"handler_ts", "callx_ts", "arrow_ts", "main_ts"} THEN "typescript" ELSE "python"

ParsedFileLists == UNION {[1..k -> BuildContents] : k \in 0..MaxFiles}

\* DEFAULT_SOURCE_SINK_CONFIG, the names a declaration of these contents could bear
is_source(lang, name) == lang = "python" /\ name = "input"
is_sink(lang, name) == name = "eval"

EmptyIndex == [symbols |-> {}, by_name |-> <<>>]

\* dict assignment `symbols[sym.id] = sym`
put_symbol(symbols, sym) == {x \in symbols : x.id # sym.id} \cup {sym}

\* SymbolIndex.add
SymbolIndex_add(idx, sym) ==
  [symbols |-> put_symbol(idx.symbols, sym),
   by_name |-> Append(idx.by_name, [name |-> sym.name, id |-> sym.id])]

\* SymbolIndex.resolve_name(name, lang): by_name[name], filtered by the language of
\* the symbol now stored under each id
SymbolIndex_resolve_name(idx, name, lang) ==
  LET ids == SelectSeq(idx.by_name, LAMBDA b : b.name = name)
  IN SelectSeq([i \in 1..Len(ids) |-> ids[i].id],
               LAMBDA sid : \E x \in idx.symbols : x.id = sid /\ x.lang = lang)

\* collect_symbols: "function" if the node type names a function or method, else "type"
sym_kind(c, s) ==
  LET n == CHOOSE t \in Range(Tree(c)) : block_id(content_hash(c), t) = s.id
  IN IF n.type \in {"function_definition", "function_declaration", "variable_declarator"}
       THEN "function" ELSE "type"

\* first pass over one file: `cpg.add_symbol(sym); sym_index.add(sym)` per symbol
RECURSIVE pass1_file(_, _, _)
pass1_file(syms, c, st) ==
  IF syms = <<>> THEN st
  ELSE LET sym == [id |-> Head(syms).id, name |-> Head(syms).name, lang |-> Head(syms).lang,
                   kind |-> sym_kind(c, Head(syms))]
       IN pass1_file(Tail(syms), c,
                     [st EXCEPT !.symbols = put_symbol(@, sym),
                                !.sym_index = SymbolIndex_add(@, sym)])

\* second pass: `if decl_id not in cpg.symbols:` add the declaration as a function
RECURSIVE enrich(_, _)
enrich(decls, st) ==
  IF decls = <<>> THEN st
  ELSE IF \E x \in st.symbols : x.id = Head(decls).id THEN enrich(Tail(decls), st)
  ELSE LET sym == [id |-> Head(decls).id, name |-> Head(decls).name, lang |-> Head(decls).lang,
                   kind |-> "function"]
       IN enrich(Tail(decls), [st EXCEPT !.symbols = put_symbol(@, sym),
                                         !.sym_index = SymbolIndex_add(@, sym)])

\* second pass: `for edge in call_edges:` resolve, append, add the interprocedural edges
RECURSIVE resolve_edges(_, _, _, _)
resolve_edges(raw, lang, interprocedural, st) ==
  IF raw = <<>> THEN st
  ELSE LET cand == SymbolIndex_resolve_name(st.sym_index, Head(raw).dst, lang)
           edge == IF cand # <<>>
                     THEN [src |-> Head(raw).src, dst |-> cand[1], unresolved |-> FALSE,
                           name |-> Head(raw).dst, lang |-> lang]
                     ELSE [src |-> Head(raw).src, dst |-> Head(raw).dst, unresolved |-> TRUE,
                           name |-> Head(raw).dst, lang |-> lang]
           ip == IF interprocedural /\ ~edge.unresolved
                   THEN SetToBag({[src |-> edge.src, dst |-> edge.dst, kind |-> "CFG_IP_CALL"],
                                  [src |-> edge.dst, dst |-> edge.src, kind |-> "CFG_IP_RET"]})
                   ELSE EmptyBag
       IN resolve_edges(Tail(raw), lang, interprocedural,
                        [st EXCEPT !.call_graph = Append(@, edge), !.edges = @ (+) ip])

\* _tag_sources_sinks(cpg, lang)
tag_sources_sinks(symbols, lang) ==
  {IF s.lang # lang THEN s
   ELSE [s EXCEPT !.kind = IF is_sink(lang, s.name) THEN "sink"
                           ELSE IF is_source(lang, s.name) THEN "source" ELSE @] : s \in symbols}

\* build: one iteration of the first `for pf in parsed_files:`
BuildPass1 ==
  /\ sg.alg = "build" /\ ss.pc = "pass1"
  /\ ss.i <= Len(sg.parsed_files)
  /\ LET c == sg.parsed_files[ss.i]
     IN ss' = [pass1_file(collect_symbols(c, lang_of(c), content_hash(c)), c, ss)
                 EXCEPT !.i = ss.i + 1]
  /\ UNCHANGED sg
  /\ UNCHANGED idxvars

\* build: the first loop ends; `parsed_files = list(parsed_files)`
BuildPass2Start ==
  /\ sg.alg = "build" /\ ss.pc = "pass1"
  /\ ss.i > Len(sg.parsed_files)
  /\ ss' = [ss EXCEPT !.pc = "pass2", !.i = 1]
  /\ UNCHANGED sg
  /\ UNCHANGED idxvars

\* build: one iteration of the second `for pf in parsed_files:`
BuildPass2 ==
  /\ sg.alg = "build" /\ ss.pc = "pass2"
  /\ ss.i <= Len(sg.parsed_files)
  /\ LET c == sg.parsed_files[ss.i]
         h == content_hash(c)
         st1 == [ss EXCEPT !.nodes = @ \cup flatten_ts_nodes(c, h),
                           !.edges = @ (+) flatten_ts_edges(c, h) (+) build_cfg(c, h)]
         st2 == enrich(extract_calls_decls(c, lang_of(c), h), st1)
         st3 == resolve_edges(extract_calls_edges(c, h), lang_of(c), sg.interprocedural, st2)
     IN ss' = [st3 EXCEPT !.symbols = tag_sources_sinks(@, lang_of(c)), !.i = ss.i + 1]
  /\ UNCHANGED sg
  /\ UNCHANGED idxvars

\* build: `return cpg`
BuildReturn ==
  /\ sg.alg = "build" /\ ss.pc = "pass2"
  /\ ss.i > Len(sg.parsed_files)
  /\ ss' = [ss EXCEPT !.pc = "done"]
  /\ UNCHANGED sg
  /\ UNCHANGED idxvars

InitBuild ==
  /\ IdxIdle
  /\ sg \in [alg : {"build"}, parsed_files : ParsedFileLists, interprocedural : BOOLEAN]
  /\ ss = [pc |-> "pass1", i |-> 1, nodes |-> {}, edges |-> EmptyBag, symbols |-> {},
           sym_index |-> EmptyIndex, call_graph |-> <<>>]

NextBuild ==
  \/ BuildPass1
  \/ BuildPass2Start
  \/ BuildPass2
  \/ BuildReturn

SpecBuild == InitBuild /\ [][NextBuild]_vars

\* --------------------------------------------------- scan_repo on directory trees
DirNames == {"node_modules", "src"}
FileNames == {"a.py", "b.ts", "big.py", "note.txt"}
SortedNames == <<"/", "a.py", "b.ts", "big.py", "build", "node_modules", "note.txt", "repo", "src">>
NoLang == "<None>"

\* scan.EXT_TO_LANG, the suffixes that occur in FileNames
EXT_TO_LANG == [x \in {".py", ".ts"} |-> IF x = ".py" THEN "python" ELSE "typescript"]

\* Path.suffix.lower()
suffix == [n \in FileNames |-> CASE n \in {"a.py", "big.py"} -> ".py"
                                 [] n = "b.ts" -> ".ts"
                                 [] OTHER -> ".txt"]

\* scan.infer_language on a file name
infer_language_name(name) ==
  IF suffix[name] \in DOMAIN EXT_TO_LANG THEN EXT_TO_LANG[suffix[name]] ELSE NoLang

DEFAULT_EXCLUDE_DIRS ==
  {".git", ".hg", ".svn", "__pycache__", ".mypy_cache", ".pytest_cache", "node_modules",
   "dist", "build", "target", "vendor", ".venv", "venv"}

max_file_bytes == 2000000
st_size == [n \in FileNames |-> IF n = "big.py" THEN max_file_bytes + 1 ELSE 10]

\* RepoScanConfig: the default, and a caller's own exclude_dirs and include_langs
RepoScanConfigs ==
  {[exclude_dirs |-> DEFAULT_EXCLUDE_DIRS, include_langs |-> {}],
   [exclude_dirs |-> {"src"}, include_langs |-> {"python"}]}

\* root.resolve(): the parts of the absolute root path
Roots == {<<"/", "repo">>, <<"/", "build", "repo">>}

DirSeqs == UNION {[1..k -> DirNames] : k \in 0..MaxDepth}
FilePaths == {ds \o <<f>> : ds \in DirSeqs, f \in FileNames}
WorkTrees == {Range(s) : s \in UNION {[1..k -> FilePaths] : k \in 0..MaxFiles}}

NameRank(n) == CHOOSE i \in 1..Len(SortedNames) : SortedNames[i] = n

\* str(p) < str(q) for two paths given by their parts
RECURSIVE PathLess(_, _)
PathLess(p, q) ==
  IF p = <<>> THEN q # <<>>
  ELSE IF q = <<>> THEN FALSE
  ELSE IF Head(p) = Head(q) THEN PathLess(Tail(p), Tail(q))
  ELSE NameRank(Head(p)) < NameRank(Head(q))

\* sorted(paths, key=lambda p: str(p))
RECURSIVE sorted(_)
sorted(S) ==
  IF S = {} THEN <<>>
  ELSE LET m == CHOOSE x \in S : \A y \in S \ {x} : PathLess(x, y)
       IN <<m>> \o sorted(S \ {m})

\* root.rglob("*"): every directory and file below root, as absolute paths (the
\* order of the walk has no effect on the result, which is sorted at the end)
rglob(root, tree) ==
  LET dirs == UNION {{SubSeq(f, 1, k) : k \in 1..Len(f) - 1} : f \in tree}
  IN sorted({root \o e : e \in dirs \cup tree})

\* the exclusion looking at the parent directory only
exclude_by_parts_parent(path, config) ==
  Len(path) > 1 /\ path[Len(path) - 1] \in config.exclude_dirs

\* any(part in config.exclude_dirs for part in path.parts)
exclude_by_parts(path, config) ==
  \E i \in 1..Len(path) : path[i] \in config.exclude_dirs

ScanLangs == {"python", "typescript"}

\* scan_repo: root.resolve(), results = {}
ScanStart ==
  /\ sg.alg = "scan" /\ ss.pc = "start"
  /\ ss' = [pc |-> "loop", todo |-> rglob(sg.root, sg.tree),
            results |-> [l \in ScanLangs |-> {}], out |-> [l \in ScanLangs |-> <<>>]]
  /\ UNCHANGED sg
  /\ UNCHANGED idxvars

\* one iteration of `for path in root.rglob("*")`
ScanStep ==
  /\ sg.alg = "scan" /\ ss.pc = "loop" /\ ss.todo # <<>>
  /\ LET path == Head(ss.todo)
         name == path[Len(path)]
         lang == IF name \in FileNames THEN infer_language_name(name) ELSE NoLang
         keep == /\ name \in FileNames                          \* not path.is_dir()
                 /\ ~exclude_by_parts(path, sg.config)
                 /\ st_size[name] <= max_file_bytes
                 /\ lang # NoLang
                 /\ (sg.config.include_langs # {} => lang \in sg.config.include_langs)
     IN ss' = [ss EXCEPT !.todo = Tail(@),
                         !.results = IF keep THEN [@ EXCEPT ![lang] = @ \cup {path}] ELSE @]
  /\ UNCHANGED sg
  /\ UNCHANGED idxvars

\* the stable ordering, and the return
ScanReturn ==
  /\ sg.alg = "scan" /\ ss.pc = "loop" /\ ss.todo = <<>>
  /\ ss' = [ss EXCEPT !.pc = "done", !.out = [l \in ScanLangs |-> sorted(ss.results[l])]]
  /\ UNCHANGED sg
  /\ UNCHANGED idxvars

InitScan ==
  /\ IdxIdle
  /\ sg \in [alg : {"scan"}, root : Roots, tree : WorkTrees, config : RepoScanConfigs]
  /\ ss = [pc |-> "start"]

NextScan ==
  \/ ScanStart
  \/ ScanStep
  \/ ScanReturn

SpecScan == InitScan /\ [][NextScan]_vars

\* ------------------------------------------------ resolve_import, python modules
\* a module's source is the sequence of its top-level statements (ast.Module.body);
\* a path is the sequence of its parts below "/"
NameT(id) == [type |-> "Name", ids |-> <<id>>]
TupleT(ids) == [type |-> "Tuple", ids |-> ids]
Stmt(type, name, targets, value) ==
  [type |-> type, name |-> name, targets |-> targets, value |-> value]

PyStmts ==
  {Stmt("FunctionDef", "foo", <<>>, {}),                       \* def foo(): ...
   Stmt("FunctionDef", "__getattr__", <<>>, {}),               \* def __getattr__(n): ...
   Stmt("Assign", "", <<NameT("__all__")>>, {}),               \* __all__ = []
   Stmt("Assign", "", <<NameT("__all__")>>, {"foo"}),          \* __all__ = ["foo"]
   Stmt("Assign", "", <<TupleT(<<"foo", "bar">>)>>, {})}       \* foo, bar = 1, 2

PyModules == UNION {[1..k -> PyStmts] : k \in 0..MaxStmts}

NoResult == [ok |-> FALSE, pending |-> TRUE]
NoExports == [names |-> {}, has_all |-> FALSE, all |-> {}, has_getattr |-> FALSE]

\* the Assign branch: `for tgt in stmt.targets: if isinstance(tgt, ast.Name): ...`
RECURSIVE exports_assign(_, _, _)
exports_assign(targets, value, acc) ==
  IF targets = <<>> THEN acc
  ELSE LET tgt == Head(targets)
           nxt == IF tgt.type # "Name" THEN acc
                  ELSE IF tgt.ids[1] = "__all__"
                         THEN [acc EXCEPT !.has_all = TRUE, !.all = @ \cup value]
                  ELSE [acc EXCEPT !.names = @ \cup {tgt.ids[1]}]
       IN exports_assign(Tail(targets), value, nxt)

\* _python_module_exports: `for stmt in mod.body`
RECURSIVE python_module_exports(_, _)
python_module_exports(body, acc) ==
  IF body = <<>> THEN acc
  ELSE LET stmt == Head(body)
           nxt == CASE stmt.type \in {"FunctionDef", "AsyncFunctionDef", "ClassDef"} ->
                         [acc EXCEPT !.names = @ \cup {stmt.name},
                                     !.has_getattr = @ \/ (stmt.type = "FunctionDef"
                                                           /\ stmt.name = "__getattr__")]
                    [] stmt.type = "Assign" -> exports_assign(stmt.targets, stmt.value, acc)
                    [] OTHER -> acc
       IN python_module_exports(Tail(body), nxt)

\* "<name>.py"
py == [n \in {"pkg", "mod", "foo"} |-> CASE n = "pkg" -> "pkg.py" [] n = "mod" -> "mod.py"
                                        [] OTHER -> "foo.py"]

path_parent(p) == SubSeq(p, 1, Len(p) - 1)

RepoRoot == <<"repo">>
Importer == <<"repo", "pkg", "sub", "imp.py">>
StoredPaths ==
  {<<"repo", "pkg", "mod.py">>, <<"repo", "vendor", "pkg", "mod.py">>,
   <<"repo", "pkg", "__init__.py">>, <<"repo", "pkg", "sub", "mod.py">>}

\* from_module: the number of leading dots, the dotted names after them; or a file path
ModuleSpecs ==
  {[dots |-> 0, parts |-> <<"pkg", "mod">>, is_path |-> FALSE],     \* "pkg.mod"
   [dots |-> 0, parts |-> <<"pkg">>, is_path |-> FALSE],            \* "pkg"
   [dots |-> 1, parts |-> <<"mod">>, is_path |-> FALSE],            \* ".mod"
   [dots |-> 2, parts |-> <<"mod">>, is_path |-> FALSE],            \* "..mod"
   [dots |-> 0, parts |-> <<"repo", "pkg", "mod.py">>, is_path |-> TRUE]}   \* "/repo/pkg/mod.py"
ImportNames == {"foo", "mod"}

\* rel.py and rel/__init__.py below a directory
py_candidates(dir, rel) ==
  <<dir \o path_parent(rel) \o <<py[rel[Len(rel)]]>>, dir \o rel \o <<"__init__.py">>>>

\* _python_module_candidates_abs: m.lstrip(".") drops every leading dot, the base
\* directory is always the importer's own
python_module_candidates_abs(module, repo_root, importer_file_path) ==
  IF module.dots > 0
    THEN IF importer_file_path = NULL THEN <<>>
         ELSE IF module.parts = <<>> THEN <<path_parent(importer_file_path) \o <<"__init__.py">>>>
         ELSE py_candidates(path_parent(importer_file_path), module.parts)
  ELSE IF module.is_path THEN <<module.parts>>
  ELSE py_candidates(repo_root, module.parts)

\* store_helpers.find_files_endingwith: f.path LIKE '%<suffix>', in any row order
find_files_endingwith(files, suf) ==
  Orderings({p \in files : Len(p) > Len(suf) /\ SubSeq(p, Len(p) - Len(suf) + 1, Len(p)) = suf})

\* list(dict.fromkeys(candidates))
RECURSIVE dedupe(_, _)
dedupe(s, seen) ==
  IF s = <<>> THEN <<>>
  ELSE IF Head(s) \in seen THEN dedupe(Tail(s), seen)
  ELSE <<Head(s)>> \o dedupe(Tail(s), seen \cup {Head(s)})

\* _resolve_import_python up to its candidate loop
ImportStart ==
  /\ sg.alg = "import" /\ ss.pc = "start"
  /\ IF sg.repo_root_hint = NULL /\ ~sg.from_module.is_path
       THEN ss' = [pc |-> "done", candidates |-> <<>>, results |-> <<>>,
                   result |-> fail("python resolve_import requires repo_root_hint", "from_module")]
       ELSE LET repo_root == IF sg.repo_root_hint = NULL THEN <<>> ELSE sg.repo_root_hint
                cands == python_module_candidates_abs(sg.from_module, repo_root, sg.importer_file_path)
                exist == SelectSeq(cands, LAMBDA p : p \in sg.files)    \* file_exists_at_rev
                \* from_module.replace(".", "/"): each leading dot leaves an empty part
                rel == [i \in 1..sg.from_module.dots |-> ""] \o sg.from_module.parts
            IN IF exist # <<>>
                 THEN ss' = [pc |-> "loop", candidates |-> exist, results |-> <<>>, result |-> NoResult]
               ELSE IF sg.repo_root_hint # NULL /\ ~sg.from_module.is_path
                 THEN \E m1 \in find_files_endingwith(sg.files, path_parent(rel) \o <<py[rel[Len(rel)]]>>),
                         m2 \in find_files_endingwith(sg.files, rel \o <<"__init__.py">>) :
                        LET found == dedupe(m1 \o m2, {})
                        IN ss' = IF found = <<>>
                                   THEN [pc |-> "done", candidates |-> <<>>, results |-> <<>>,
                                         result |-> fail("module file not found at rev", "candidates")]
                                   ELSE [pc |-> "loop", candidates |-> found, results |-> <<>>,
                                         result |-> NoResult]
               ELSE ss' = [pc |-> "done", candidates |-> <<>>, results |-> <<>>,
                           result |-> fail("module file not found at rev", "candidates")]
  /\ UNCHANGED sg
  /\ UNCHANGED idxvars

\* one iteration of `for cpath in candidates`
ImportCandidate ==
  /\ sg.alg = "import" /\ ss.pc = "loop" /\ ss.candidates # <<>>
  /\ LET cpath == Head(ss.candidates)
         exports == python_module_exports(sg.module, NoExports)
         pkg_dir == path_parent(cpath)
         sub_candidates == <<pkg_dir \o <<py[sg.name]>>, pkg_dir \o <<sg.name, "__init__.py">>>>
         subs == SelectSeq(sub_candidates, LAMBDA sp : sp \in sg.files)
     IN IF cpath \notin sg.files                           \* file_version_blob found no row
          THEN ss' = [ss EXCEPT !.candidates = Tail(@)]
        ELSE IF ~sg.blobs                                  \* blob_content returned None
          THEN ss' = [ss EXCEPT !.pc = "done",
                                !.result = fail("blob content not available", "store_blobs")]
        ELSE IF sg.name \in exports.names
                \/ (exports.has_all /\ sg.name \in exports.all /\ exports.has_getattr)
          THEN ss' = [ss EXCEPT !.candidates = Tail(@), !.results = Append(@, cpath)]
        ELSE IF cpath[Len(cpath)] = "__init__.py" /\ subs # <<>>
          THEN ss' = [ss EXCEPT !.candidates = Tail(@), !.results = Append(@, Head(subs))]
        ELSE ss' = [ss EXCEPT !.candidates = Tail(@)]
  /\ UNCHANGED sg
  /\ UNCHANGED idxvars

\* after the loop
ImportReturn ==
  /\ sg.alg = "import" /\ ss.pc = "loop" /\ ss.candidates = <<>>
  /\ ss' = [ss EXCEPT !.pc = "done",
                      !.result = IF ss.results = <<>>
                                   THEN fail("import target not exported from module (strict)", "name")
                                   ELSE ok([matches |-> ss.results])]
  /\ UNCHANGED sg
  /\ UNCHANGED idxvars

\* every stored python file holds the same module text
InitImport ==
  /\ IdxIdle
  /\ sg \in [alg : {"import"}, files : SUBSET StoredPaths, module : PyModules, blobs : BOOLEAN,
             from_module : ModuleSpecs, name : ImportNames,
             repo_root_hint : {NULL, RepoRoot}, importer_file_path : {NULL, Importer}]
  /\ ss = [pc |-> "start"]

NextImport ==
  \/ ImportStart
  \/ ImportCandidate
  \/ ImportReturn

SpecImport == InitImport /\ [][NextImport]_vars

\* ------------------------------------------------------------------ slicing
DEFAULT_EDGE_POLICY == {"DDG", "CFG", "CFG_BRANCH", "CFG_IP_CALL", "CFG_IP_RET", "CALL"}
per_node_limit == 200

\* LiteCPGStore.neighbors_multi: the lists the SELECT ... LIMIT may return
neighbors_multi(E, node_id, kinds, direction, limit) ==
  IF kinds = {} THEN {<<>>}
  ELSE LET rows == IF direction = "out"
                     THEN {e \in E : e.src = node_id /\ e.kind \in kinds}
                     ELSE {e \in E : e.dst = node_id /\ e.kind \in kinds}
       IN {[i \in 1..Min(limit, Cardinality(rows)) |->
              IF direction = "out" THEN o[i].dst ELSE o[i].src] : o \in Orderings(rows)}

\* _make_forward_graph / _make_reverse_graph, then graph.get(cur, []): every edge of
\* cpg.edges + cpg.call_graph, in list order
graph_get(E, direction, node_id) ==
  LET rows == IF direction = "out" THEN {e \in E : e.src = node_id}
                                   ELSE {e \in E : e.dst = node_id}
  IN {[i \in 1..Cardinality(rows) |->
         IF direction = "out" THEN o[i].dst ELSE o[i].src] : o \in Orderings(rows)}

\* `for nxt in neigh: if nxt in seen: continue; seen.add(nxt); q.append(nxt)`
RECURSIVE Enqueue(_, _, _)
Enqueue(neigh, seen, q) ==
  IF neigh = <<>> THEN [seen |-> seen, q |-> q]
  ELSE IF Head(neigh) \in seen THEN Enqueue(Tail(neigh), seen, q)
  ELSE Enqueue(Tail(neigh), seen \cup {Head(neigh)}, Append(q, Head(neigh)))

\* loop test that lets one more node through
bfs_continue_le(q, out, limit) == q # <<>> /\ Len(out) <= limit

\* slicer._bfs: `while q and len(out) < limit`
bfs_continue(q, out, limit) == q # <<>> /\ Len(out) < limit

\* store_slicer._slice: `while q and len(out) < options.max_nodes`
slice_continue(q, out, max_nodes) == q # <<>> /\ Len(out) < max_nodes

\* slicer._bfs, the loop over starts
BfsStart ==
  /\ sg.alg = "mem" /\ ss.pc = "start"
  /\ ss' = [pc |-> "loop", q |-> sg.criteria, seen |-> Range(sg.criteria), out |-> <<>>]
  /\ UNCHANGED sg
  /\ UNCHANGED idxvars

\* slicer._bfs, one iteration of the while loop
BfsStep ==
  /\ sg.alg = "mem" /\ ss.pc = "loop"
  /\ bfs_continue(ss.q, ss.out, sg.max_nodes)
  /\ \E neigh \in graph_get(sg.edges, sg.direction, Head(ss.q)) :
       LET r == Enqueue(neigh, ss.seen, Tail(ss.q))
       IN ss' = [pc |-> "loop", q |-> r.q, seen |-> r.seen, out |-> Append(ss.out, Head(ss.q))]
  /\ UNCHANGED sg
  /\ UNCHANGED idxvars

\* slicer._bfs, `return out`
BfsReturn ==
  /\ sg.alg = "mem" /\ ss.pc = "loop"
  /\ ~bfs_continue(ss.q, ss.out, sg.max_nodes)
  /\ ss' = [ss EXCEPT !.pc = "done"]
  /\ UNCHANGED sg
  /\ UNCHANGED idxvars

\* store_slicer._slice, the loop over criteria
SliceStart ==
  /\ sg.alg = "store" /\ ss.pc = "start"
  /\ LET r == Enqueue(sg.criteria, {}, <<>>)
     IN ss' = [pc |-> "loop", q |-> r.q, seen |-> r.seen, out |-> <<>>]
  /\ UNCHANGED sg
  /\ UNCHANGED idxvars

\* store_slicer._slice, one iteration of the while loop
SliceStep ==
  /\ sg.alg = "store" /\ ss.pc = "loop"
  /\ slice_continue(ss.q, ss.out, sg.max_nodes)
  /\ \E neigh \in neighbors_multi(sg.edges, Head(ss.q), DEFAULT_EDGE_POLICY, sg.direction, per_node_limit) :
       LET r == Enqueue(neigh, ss.seen, Tail(ss.q))
       IN ss' = [pc |-> "loop", q |-> r.q, seen |-> r.seen, out |-> Append(ss.out, Head(ss.q))]
  /\ UNCHANGED sg
  /\ UNCHANGED idxvars

\* store_slicer._slice, `return out`
SliceReturn ==
  /\ sg.alg = "store" /\ ss.pc = "loop"
  /\ ~slice_continue(ss.q, ss.out, sg.max_nodes)
  /\ ss' = [ss EXCEPT !.pc = "done"]
  /\ UNCHANGED sg
  /\ UNCHANGED idxvars

\* forward_slice / backward_slice (alg "mem") and forward_slice_store /
\* backward_slice_store (alg "store") called with max_nodes = N
InitSliceOn(G) ==
  /\ IdxIdle
  /\ sg \in [alg : {"mem", "store"}, direction : Directions, edges : G,
             criteria : CriteriaLists, max_nodes : 0..MaxN]
  /\ ss = [pc |-> "start"]

InitSlice == InitSliceOn(Graphs)

NextSlice ==
  \/ BfsStart
  \/ BfsStep
  \/ BfsReturn
  \/ SliceStart
  \/ SliceStep
  \/ SliceReturn

SpecSlice == InitSlice /\ [][NextSlice]_vars

\* -------------------------------------------------------------------- taint
TaintEdgeKinds == {"DDG", "CFG_IP_CALL", "CALL"}
SiteSets == {S \in SUBSET Nodes : Cardinality(S) <= MaxSites}

\* the loop without its `if nxt in visited: continue`
RECURSIVE Push_revisit(_, _, _, _)
Push_revisit(neigh, visited, stack, path) ==
  IF neigh = <<>> THEN [visited |-> visited, stack |-> stack]
  ELSE Push_revisit(Tail(neigh), visited \cup {Head(neigh)},
                    Append(stack, [node |-> Head(neigh), path |-> Append(path, Head(neigh))]), path)

\* `for nxt in neigh: if nxt in visited: continue; visited.add(nxt);
\*  stack.append((nxt, path + [nxt]))`
RECURSIVE Push(_, _, _, _)
Push(neigh, visited, stack, path) ==
  IF neigh = <<>> THEN [visited |-> visited, stack |-> stack]
  ELSE IF Head(neigh) \in visited THEN Push(Tail(neigh), visited, stack, path)
  ELSE Push(Tail(neigh), visited \cup {Head(neigh)},
            Append(stack, [node |-> Head(neigh), path |-> Append(path, Head(neigh))]), path)

\* the arguments forward_/backward_taint_paths_store hand to _paths
PathsSinks == IF sg.entry = "forward" THEN sg.sink_sites ELSE sg.source_sites
PathsDirection == IF sg.entry = "forward" THEN "out" ELSE "in"

\* forward_/backward_taint_paths_store: the three call_sites_by_names queries
TaintStart ==
  /\ sg.alg = "taint" /\ ss.pc = "start"
  /\ \E order \in Orderings(IF sg.entry = "forward" THEN sg.source_sites ELSE sg.sink_sites) :
       ss' = [pc |-> "for", sources |-> order, i |-> 1, stack |-> <<>>, visited |-> {},
              found |-> <<>>]
  /\ UNCHANGED sg
  /\ UNCHANGED idxvars

\* _paths: `for src in sources:` takes the next source
TaintSource ==
  /\ sg.alg = "taint" /\ ss.pc = "for"
  /\ ss.i <= Len(ss.sources)
  /\ Len(ss.found) < sg.max_paths
  /\ LET src == ss.sources[ss.i]
     IN ss' = [ss EXCEPT !.pc = "while", !.stack = <<[node |-> src, path |-> <<src>>]>>,
                         !.visited = {src}]
  /\ UNCHANGED sg
  /\ UNCHANGED idxvars

\* _paths: one iteration of `while stack and len(found) < options.max_paths`
TaintStep ==
  /\ sg.alg = "taint" /\ ss.pc = "while"
  /\ ss.stack # <<>> /\ Len(ss.found) < sg.max_paths
  /\ LET top == ss.stack[Len(ss.stack)]
         rest == SubSeq(ss.stack, 1, Len(ss.stack) - 1)
     IN IF top.node \in PathsSinks
          THEN ss' = [ss EXCEPT !.stack = rest, !.found = Append(@, top.path)]
        ELSE IF Len(top.path) >= sg.max_steps
          THEN ss' = [ss EXCEPT !.stack = rest]
        ELSE IF top.node \in sg.sanitizer_sites
          THEN ss' = [ss EXCEPT !.stack = rest]
        ELSE \E neigh \in neighbors_multi(sg.edges, top.node, TaintEdgeKinds, PathsDirection, per_node_limit) :
               LET r == Push(neigh, ss.visited, rest, top.path)
               IN ss' = [ss EXCEPT !.stack = r.stack, !.visited = r.visited]
  /\ UNCHANGED sg
  /\ UNCHANGED idxvars

\* _paths: the while loop ends, the for loop moves on
TaintSourceDone ==
  /\ sg.alg = "taint" /\ ss.pc = "while"
  /\ ~(ss.stack # <<>> /\ Len(ss.found) < sg.max_paths)
  /\ ss' = [ss EXCEPT !.pc = "for", !.i = @ + 1]
  /\ UNCHANGED sg
  /\ UNCHANGED idxvars

\* _paths: sources exhausted or `break`; `return found`
TaintReturn ==
  /\ sg.alg = "taint" /\ ss.pc = "for"
  /\ (ss.i > Len(ss.sources) \/ Len(ss.found) >= sg.max_paths)
  /\ ss' = [ss EXCEPT !.pc = "done"]
  /\ UNCHANGED sg
  /\ UNCHANGED idxvars

InitTaintOn(G, steps, paths) ==
  /\ IdxIdle
  /\ sg \in [alg : {"taint"}, entry : {"forward", "backward"}, edges : G,
             source_sites : SiteSets, sink_sites : SiteSets, sanitizer_sites : SiteSets,
             max_steps : steps, max_paths : paths]
  /\ ss = [pc |-> "start"]

InitTaint == InitTaintOn(Graphs, 1..MaxSteps, 1..MaxN)

NextTaint ==
  \/ TaintStart
  \/ TaintSource
  \/ TaintStep
  \/ TaintSourceDone
  \/ TaintReturn

SpecTaint == InitTaint /\ [][NextTaint]_vars

\* --------------------------------------------- taint search, options from zero up
\* graphs whose AST edges (a kind the search must not follow) leave n1
TaintGraphs == {E \in Graphs : \A e \in E : e.kind = "AST" => e.src = "n1"}

\* call_sites_by_names results for the configured source, sink and sanitizer names
TaintSites ==
  [source_sites : {{"n1"}, {"n1", "n2"}},
   sink_sites : {{"n3"}, {"n1", "n3"}, {"n2", "n3"}},
   sanitizer_sites : {{}, {"n2"}}]

\* TaintOptions(max_steps=.., max_paths=..): any non-negative int is accepted
InitTaintPaths ==
  /\ IdxIdle
  /\ \E t \in TaintSites, E \in TaintGraphs, entry \in {"forward", "backward"},
        steps \in 0..MaxSteps, paths \in 0..MaxN :
       sg = [alg |-> "taint", entry |-> entry, edges |-> E,
             source_sites |-> t.source_sites, sink_sites |-> t.sink_sites,
             sanitizer_sites |-> t.sanitizer_sites, max_steps |-> steps, max_paths |-> paths]
  /\ ss = [pc |-> "start"]

SpecTaintPaths == InitTaintPaths /\ [][NextTaint]_vars

\* ------------------------------------------- taint search on joining data flows
\* call sites and statements of a flow that splits at n1 and joins again at n4
FlowNodes == {"n1", "n2", "n3", "n4", "n5", "n6"}
FlowEdge(a, b) == [src |-> a, dst |-> b, kind |-> "DDG"]
FlowUniverse ==
  {FlowEdge("n1", "n2"), FlowEdge("n1", "n3"), FlowEdge("n2", "n4"), FlowEdge("n3", "n5"),
   FlowEdge("n5", "n4"), FlowEdge("n4", "n6"), FlowEdge("n4", "n1"),
   [src |-> "n1", dst |-> "n6", kind |-> "AST"]}
FlowGraphs == SUBSET FlowUniverse

\* forward_/backward_taint_paths_store on such a store; the options stay below the
\* sizes at which max_paths or per_node_limit could cut the search
InitTaintFlow ==
  /\ IdxIdle
  /\ \E E \in FlowGraphs, entry \in {"forward", "backward"}, san \in {{}, {"n5"}},
        steps \in 1..MaxSteps + 1, paths \in 1..MaxN :
       sg = [alg |-> "taint", entry |-> entry, edges |-> E,
             source_sites |-> {"n1"}, sink_sites |-> {"n6"},
             sanitizer_sites |-> san, max_steps |-> steps, max_paths |-> paths]
  /\ ss = [pc |-> "start"]

SpecTaintFlow == InitTaintFlow /\ [][NextTaint]_vars

\* ------------------------------------------------- tool-layer graph search
DEFAULT_EDGE_KINDS == {"DDG", "CFG", "CFG_BRANCH", "CALL", "CFG_IP_CALL", "CFG_IP_RET"}
None == "<None>"
bfs_default_max_steps == 64
reachability_max_nodes == 5000
bfs_edge_limit == 500

\* a committed store holding the graph E: one file, one blob, one revision
SynthDb(E) ==
  [EmptyDb EXCEPT
     !.revisions = {[rev |-> "base", base_rev |-> NULL, created_at |-> 1]},
     !.files = {[file_id |-> 1, path |-> "a.py", lang |-> "python"]},
     !.file_versions = {[rev |-> "base", file_id |-> 1, blob_hash |-> "h1"]},
     !.nodes = {[node_id |-> n, blob_hash |-> "h1", file_id |-> 1] : n \in Nodes},
     !.edges = [r \in {[blob_hash |-> "h1", file_id |-> 1, src |-> e.src, dst |-> e.dst,
                        kind |-> e.kind] : e \in E} |-> 1]]

\* store_helpers.iter_edges_for_rev: the row lists the SELECT ... LIMIT may return, each
\* row at its first occurrence (the edges table has no uniqueness constraint; the
\* loops that read the list skip a repeated row, its far end being visited already).
\* n rows are returned, n the smaller of limit and the number of matching rows: any
\* set of distinct rows that can fill n places, in any order. An empty kinds
\* argument drops the kind clause.
iter_edges_for_rev(d, rev, direction, node_id, kinds, limit) ==
  LET rows == {e \in BagToSet(d.edges) :
                 /\ VisibleAt(d, rev, e)
                 /\ IF direction = "out" THEN e.src = node_id ELSE e.dst = node_id
                 /\ kinds = {} \/ e.kind \in kinds}
      n == Min(limit, SumCounts(d.edges, rows))
  IN UNION {Orderings(T) : T \in {S \in SUBSET rows : /\ Cardinality(S) <= n
                                                      /\ SumCounts(d.edges, S) >= n}}

\* store_helpers.node_locations: the ids that have a nodes row
node_locations(d, ids) == {n \in ids : \E row \in d.nodes : row.node_id = n}

\* `for src, dst, kind in edges:` of _bfs_paths
RECURSIVE Discover(_, _, _, _, _)
Discover(edges, direction, node, steps, st) ==
  IF edges = <<>> THEN st
  ELSE LET e == Head(edges)
           nxt == IF direction = "out" THEN e.dst ELSE e.src
       IN IF nxt \in st.visited
            THEN Discover(Tail(edges), direction, node, steps, st)
            ELSE Discover(Tail(edges), direction, node, steps,
                          [st EXCEPT !.visited = @ \cup {nxt},
                                     !.parent = @ @@ (nxt :> node),
                                     !.parent_edge = @ @@ (nxt :> e.kind),
                                     !.q = Append(@, [node |-> nxt, steps |-> steps + 1])])

\* `while cur is not None: path_nodes.append(cur); cur = parent.get(cur)`, reversed
RECURSIVE PathTo(_, _)
PathTo(parent, at) ==
  IF at = None THEN <<>>
  ELSE Append(PathTo(parent, IF at \in DOMAIN parent THEN parent[at] ELSE None), at)

\* the edge kinds collected on the way, reversed
RECURSIVE KindsTo(_, _, _)
KindsTo(parent, parent_edge, at) ==
  IF at = None THEN <<>>
  ELSE LET up == KindsTo(parent, parent_edge, IF at \in DOMAIN parent THEN parent[at] ELSE None)
       IN IF at \in DOMAIN parent_edge /\ parent_edge[at] # None
            THEN Append(up, parent_edge[at]) ELSE up

\* the direction _bfs_paths is called with
BfsDirection == IF sg.direction = "forward" THEN "out" ELSE "in"

\* `q.popleft()` that leaves the element in the queue
popleft_keep(q) == q

\* `node, steps = q.popleft()`: the queue afterwards
popleft(q) == Tail(q)

\* cpg_slice / cpg_query_forward / cpg_query_backward / cpg_reachability up to the
\* while loop of _bfs_paths: direction check, open_store, require_rev, the starts
BfsPathsStart ==
  /\ sg.alg = "bfs_paths" /\ ss.pc = "start"
  /\ IF sg.entry = "cpg_slice" /\ sg.direction \notin {"forward", "backward"}
       THEN ss' = [pc |-> "done", outcome |-> "returned", result |-> fail("invalid direction", sg.direction)]
     ELSE LET st == open_store(sg.db_path) IN
       IF st.raised
         THEN ss' = [pc |-> "done", outcome |-> "exception", error |-> st.error]
       ELSE LET r == require_rev(committed, sg.rev) IN
         IF r.raised
           THEN ss' = [pc |-> "done", outcome |-> "returned", result |-> fail("cpg graph query failed", r.error)]
           ELSE ss' = [pc |-> "loop", rev |-> r.rev,
                       q |-> [i \in DOMAIN sg.starts |-> [node |-> sg.starts[i], steps |-> 0]],
                       parent |-> [n \in Range(sg.starts) |-> None],
                       parent_edge |-> [n \in Range(sg.starts) |-> None],
                       visited |-> Range(sg.starts), found |-> None]
  /\ UNCHANGED sg
  /\ UNCHANGED idxvars

\* _bfs_paths: `while q and len(visited) < int(max_nodes)`
bfs_paths_continue == ss.q # <<>> /\ Cardinality(ss.visited) < sg.max_nodes

\* _bfs_paths: one iteration of the while loop
BfsPathsStep ==
  /\ sg.alg = "bfs_paths" /\ ss.pc = "loop"
  /\ bfs_paths_continue
  /\ LET node == Head(ss.q).node
         steps == Head(ss.q).steps
         rest == popleft(ss.q)
     IN IF sg.stop_at # None /\ node = sg.stop_at
          THEN ss' = [ss EXCEPT !.q = rest, !.found = node, !.pc = "finish"]      \* break
        ELSE IF steps >= sg.max_steps
          THEN ss' = [ss EXCEPT !.q = rest]                                        \* continue
        ELSE \E edges \in iter_edges_for_rev(committed, ss.rev, BfsDirection, node,
                                             DEFAULT_EDGE_KINDS, bfs_edge_limit) :
               ss' = Discover(edges, BfsDirection, node, steps, [ss EXCEPT !.q = rest])
  /\ UNCHANGED sg
  /\ UNCHANGED idxvars

\* _bfs_paths: the while loop ends by its test
BfsPathsLoopEnd ==
  /\ sg.alg = "bfs_paths" /\ ss.pc = "loop"
  /\ ~bfs_paths_continue
  /\ ss' = [ss EXCEPT !.pc = "finish"]
  /\ UNCHANGED sg
  /\ UNCHANGED idxvars

\* _bfs_paths after the loop: the path to stop_at, or the visited nodes that have a
\* location
BfsPathsReturn ==
  /\ sg.alg = "bfs_paths" /\ ss.pc = "finish"
  /\ LET found == IF ss.found = None /\ sg.stop_at \in DOMAIN ss.parent THEN sg.stop_at ELSE ss.found
         result ==
           IF sg.stop_at # None
             THEN IF found = None
                    THEN ok([rev |-> ss.rev, reachable |-> FALSE])
                    ELSE ok([rev |-> ss.rev, reachable |-> TRUE,
                             node_ids |-> PathTo(ss.parent, found),
                             edge_kinds |-> KindsTo(ss.parent, ss.parent_edge, found)])
             ELSE ok([rev |-> ss.rev, nodes |-> node_locations(committed, ss.visited),
                      count |-> Cardinality(node_locations(committed, ss.visited))])
     IN ss' = [pc |-> "done", outcome |-> "returned", result |-> result, visited |-> ss.visited]
  /\ UNCHANGED sg
  /\ UNCHANGED idxvars

\* the arguments each tool function hands to _bfs_paths
BfsArgs(entry, rev, starts, direction, max_nodes, max_steps, stop_at) ==
  [alg |-> "bfs_paths", entry |-> entry, db_path |-> "cpg.sqlite", rev |-> rev, starts |-> starts,
   direction |-> direction, max_nodes |-> max_nodes, max_steps |-> max_steps, stop_at |-> stop_at]

BfsCalls(revs) ==
  {BfsArgs("cpg_slice", rev, c, dir, n, bfs_default_max_steps, None) :
     rev \in revs, c \in CriteriaLists, dir \in {"forward", "backward", "sideways"}, n \in 0..MaxN}
  \cup {BfsArgs("cpg_query_forward", rev, <<s>>, "forward", n, k, None) :
     rev \in revs, s \in Nodes, n \in 0..MaxN, k \in 0..MaxSteps}
  \cup {BfsArgs("cpg_query_backward", rev, <<s>>, "backward", n, k, None) :
     rev \in revs, s \in Nodes, n \in 0..MaxN, k \in 0..MaxSteps}
  \cup {BfsArgs("cpg_reachability", rev, <<s>>, "forward", reachability_max_nodes, k, t) :
     rev \in revs, s \in Nodes, t \in Nodes, k \in 0..MaxSteps}

\* the index-side variables of a behaviour that searches the committed graph E
IdxHolding(E) ==
  /\ repo = [p \in Paths |-> NoFile]
  /\ db = SynthDb(E)
  /\ committed = SynthDb(E)
  /\ pc = "idle"
  /\ todo = <<>>
  /\ cur = NoRun
  /\ prev = NULL
  /\ obs = NoObs
  /\ store_blobs = FALSE
  /\ nruns = 1

InitBfsPathsOn(G, revs) ==
  /\ \E E \in G : IdxHolding(E)
  /\ sg \in BfsCalls(revs)
  /\ ss = [pc |-> "start"]

InitBfsPaths == InitBfsPathsOn(Graphs, {Omitted, "head"})

NextBfsPaths ==
  \/ BfsPathsStart
  \/ BfsPathsStep
  \/ BfsPathsLoopEnd
  \/ BfsPathsReturn

SpecBfsPaths == InitBfsPaths /\ [][NextBfsPaths]_vars

\* ------------------------------------------- cpg_reachability on stores with wide nodes
\* the edges a stored blob may hold; the last one is of a kind no search follows
ReachUniverse ==
  {[src |-> "n1", dst |-> "n2", kind |-> "DDG"], [src |-> "n1", dst |-> "n3", kind |-> "DDG"],
   [src |-> "n2", dst |-> "n3", kind |-> "DDG"], [src |-> "n3", dst |-> "n1", kind |-> "DDG"],
   [src |-> "n2", dst |-> "n3", kind |-> "AST"]}

\* a committed store with one revision and one file at blob h1: the edges E of that
\* blob, the edge `hot` stored bfs_edge_limit times (rows of a node with that many
\* edges), and the edges of an earlier blob h0 of the file that `old` names
WideDb(E, hot, old) ==
  [SynthDb({}) EXCEPT
     !.edges = [r \in {[blob_hash |-> "h1", file_id |-> 1, src |-> e.src, dst |-> e.dst,
                        kind |-> e.kind] : e \in E}
                      \cup {[blob_hash |-> "h0", file_id |-> 1, src |-> e.src, dst |-> e.dst,
                             kind |-> e.kind] : e \in old}
                  |-> IF r.blob_hash = "h1" /\ hot # NULL
                         /\ [src |-> r.src, dst |-> r.dst, kind |-> r.kind] = hot
                        THEN bfs_edge_limit ELSE 1]]

InitReach ==
  /\ \E E \in SUBSET ReachUniverse, old \in SUBSET {[src |-> "n1", dst |-> "n3", kind |-> "DDG"]} :
       \E hot \in {<<NULL>>} \cup {<<e>> : e \in E} :
         /\ db = WideDb(E, hot[1], old)
         /\ committed = db
  /\ repo = [p \in Paths |-> NoFile]
  /\ pc = "idle" /\ todo = <<>> /\ cur = NoRun /\ prev = NULL /\ obs = NoObs
  /\ store_blobs = FALSE /\ nruns = 1
  /\ sg \in {BfsArgs("cpg_reachability", rev, <<s>>, "forward", reachability_max_nodes, k, t) :
               rev \in {Omitted, "base"}, s \in Nodes, t \in Nodes, k \in 0..MaxSteps}
  /\ ss = [pc |-> "start"]

SpecReach == InitReach /\ [][NextBfsPaths]_vars

\* ------------------------------------------------------ cpg_tools.cpg_callgraph
callgraph_edge_kinds == {"CALL", "CFG_IP_CALL", "CFG_IP_RET"}
callgraph_depth == 2
callgraph_limit == 200

\* the rows one iter_edges_for_rev call yields, as (src, dst, kind); with no more
\* rows than `limit` every row order yields the same rows
callgraph_rows(d, r, direction, nid) ==
  UNION {{[src |-> l[i].src, dst |-> l[i].dst, kind |-> l[i].kind] : i \in 1..Len(l)} :
           l \in iter_edges_for_rev(d, r, direction, nid, callgraph_edge_kinds, callgraph_limit)}

\* the `for _ in range(depth)` loop: the edges collected and the nodes visited
RECURSIVE callgraph_levels(_, _, _, _, _, _, _)
callgraph_levels(d, r, direction, frontier, visited, edges_out, depth) ==
  IF depth = 0 \/ frontier = {} THEN [visited |-> visited, edges |-> edges_out]
  ELSE LET found == UNION {callgraph_rows(d, r, direction, nid) : nid \in frontier}
           nxt == {IF direction = "out" THEN e.dst ELSE e.src : e \in found} \ visited
       IN callgraph_levels(d, r, direction, nxt, visited \cup nxt, edges_out \cup found, depth - 1)

\* the body of cpg_callgraph's try block, after require_rev
cpg_callgraph_body(d, r, node_or_symbol, direction) ==
  LET res == callgraph_levels(d, r, direction, {node_or_symbol}, {node_or_symbol}, {},
                              callgraph_depth)
  IN ok([rev |-> r, nodes |-> node_locations(d, res.visited), edges |-> res.edges])

\* cpg_tools.cpg_callgraph, called with the id of a stored call site
cpg_callgraph(db_path) ==
  /\ LET st == open_store(db_path)
     IN IF st.raised
          THEN obs' = [kind |-> "callgraph", outcome |-> "exception", error |-> st.error]
          ELSE \E rev \in RevArgs, direction \in Directions,
                  node \in {c.src_node : c \in BagToSet(committed.calls)} :
                 LET r == require_rev(committed, rev)
                 IN obs' = [kind |-> "callgraph", outcome |-> "returned", rev_arg |-> rev,
                            node |-> node, direction |-> direction,
                            result |-> IF r.raised
                                         THEN fail("cpg_callgraph failed", r.error)
                                         ELSE cpg_callgraph_body(committed, r.rev, node, direction)]
  /\ UNCHANGED <<repo, db, committed, pc, todo, cur, prev, store_blobs, nruns, sg, ss>>

NextCallgraph ==
  \/ Next
  \/ \E db_path \in DbPaths : cpg_callgraph(db_path)

SpecCallgraph == InitTools /\ [][NextCallgraph]_vars

\* ------------------------------------------- the three searches, run to the end
\* graphs whose every edge is of a kind all three searches follow
FollowedGraphs == {E \in Graphs : \A e \in E : e.kind = "DDG"}

InitSearch ==
  \/ InitSliceOn(FollowedGraphs)
  \/ InitTaintOn(FollowedGraphs, {1, MaxSteps}, {MaxN})
  \/ InitBfsPathsOn(FollowedGraphs, {Omitted})

NextSearch ==
  \/ NextSlice
  \/ NextTaint
  \/ NextBfsPaths

\* a called function keeps executing: the next statement of the search is taken
SpecSearchFair == InitSearch /\ [][NextSearch]_vars /\ WF_vars(NextSearch)

\* ------------------------------------------------------------------ claims
RowsOfBlob(d, blob_hash) == {n \in d.nodes : n.blob_hash = blob_hash}

\* C1: a call that repeats the previous committed call (same revision label, tree
\* unchanged in between) leaves the row counts of nodes, edges, symbols and calls
\* as they were after the first call.
C1_IdempotentIndexing ==
  (obs.kind = "run" /\ obs.status = "committed" /\ obs.repeat)
    => RowCounts(committed) = RowCounts(obs.before)

C1_Witness ==
  /\ obs.kind = "run" /\ obs.status = "committed" /\ obs.repeat
  /\ \E e \in BagToSet(committed.edges) : e.kind = "CFG_IP_RET"
  /\ \E c \in BagToSet(committed.calls) : c.resolved = 0

\* C2: when the per-file iteration meets a content hash that already has node rows,
\* it writes the file_versions row of (rev, file_id), adds no node row for that
\* hash, does not parse the file and does not call put_file_artifacts.
C2_BlobReuse ==
  (obs.kind = "file" /\ obs.nodes_before # {})
    => /\ [rev |-> obs.rev, file_id |-> obs.file_id, blob_hash |-> obs.blob_hash] \in db.file_versions
       /\ RowsOfBlob(db, obs.blob_hash) = obs.nodes_before
       /\ ~obs.parsed
       /\ ~obs.put

C2_Witness ==
  /\ obs.kind = "file" /\ obs.nodes_before # {} /\ obs.rev = "head"
  /\ \E fv \in committed.file_versions : fv.rev = "base" /\ fv.blob_hash = obs.blob_hash
  /\ [rev |-> "head", file_id |-> obs.file_id, blob_hash |-> obs.blob_hash] \in db.file_versions

NameCount(d, name) == Cardinality({s \in d.symbols : s.name = name})

Converged(d) ==
  \A c \in BagToSet(d.calls) :
    /\ NameCount(d, c.dst_name) = 1 => (c.resolved = 1 /\ c.dst_symbol # NULL)
    /\ NameCount(d, c.dst_name) = 0 => (c.resolved = 0 /\ c.dst_symbol = NULL)

\* C3: once resolve_calls() has returned, every calls row whose dst_name is the name
\* of exactly one stored symbol is resolved with a non-null dst_symbol, and every
\* row whose dst_name is no stored symbol's name is unresolved with dst_symbol NULL.
C3_CallResolutionConvergence ==
  /\ pc = "commit" => Converged(db)
  /\ Converged(committed)

C3_Witness ==
  /\ pc = "commit"
  /\ \E c \in BagToSet(db.calls) :
       /\ NameCount(db, c.dst_name) = 1 /\ c.resolved = 1 /\ c.dst_symbol[1] # c.blob_hash
       /\ c \notin DOMAIN committed.calls
  /\ \E c \in BagToSet(db.calls) : NameCount(db, c.dst_name) = 0 /\ c.resolved = 0

\* C4: when index_repository raises, the committed content and the connection's
\* view are both exactly the content committed before the call.
C4_AtomicPerRevision ==
  (obs.kind = "run" /\ obs.status = "raised")
    => (committed = obs.before /\ db = obs.before)

C4_Witness ==
  /\ obs.kind = "run" /\ obs.status = "raised" /\ obs.at = "resolve_calls"
  /\ obs.files_done >= 1
  /\ obs.before # EmptyDb
  /\ committed = obs.before

\* C5: a file whose parse or graph build raises does not abort the revision: the
\* call still commits.
C5_ParseFailureDoesNotAbort ==
  (obs.kind = "run" /\ obs.parse_failed)
    => (obs.status = "committed" /\ \E r \in committed.revisions : r.rev = obs.rev /\ r.created_at = nruns)

\* C6: a slice called with max_nodes = N >= 0 returns at most N node ids, in memory
\* and against the store, forward and backward.
C6_SliceSizeBound ==
  (sg.alg \in {"mem", "store"} /\ ss.pc = "done") => Len(ss.out) <= sg.max_nodes

C6_Witness ==
  /\ sg.alg = "store" /\ ss.pc = "done"
  /\ Len(ss.out) = sg.max_nodes /\ sg.max_nodes = MaxN
  /\ ss.q # <<>>

\* C7: every bounded graph search (store slice, taint path search, tool-layer
\* breadth-first search) returns, on every finite graph, cycles and self-loops
\* included.
C7_SearchTerminates == <>(ss.pc = "done")

HasCycleThrough(E, n) ==
  \/ \E e \in E : e.src = n /\ e.dst = n
  \/ \E e, f \in E : e.src = n /\ f.dst = n /\ e.dst = f.src /\ e.dst # n

C7_Witness ==
  /\ sg.alg = "store" /\ ss.pc = "done" /\ sg.max_nodes = MaxN
  /\ \E n \in Range(ss.out) : HasCycleThrough(sg.edges, n) /\ (\E e \in sg.edges : e.src = n /\ e.dst = n)
  /\ Len(ss.out) < MaxN

C7_WitnessTaint ==
  /\ sg.alg = "taint" /\ ss.pc = "done" /\ sg.max_steps = MaxSteps
  /\ sg.sink_sites = {} /\ sg.sanitizer_sites = {}
  /\ \E n \in ss.visited : HasCycleThrough(sg.edges, n) /\ Cardinality(ss.visited) >= 2

C7_WitnessBfsPaths ==
  /\ sg.alg = "bfs_paths" /\ ss.pc = "done" /\ ss.outcome = "returned" /\ ss.result.ok
  /\ sg.max_nodes = reachability_max_nodes /\ sg.max_steps = MaxSteps
  /\ \E n \in ss.visited : HasCycleThrough({[src |-> e.src, dst |-> e.dst, kind |-> e.kind] : e \in BagToSet(committed.edges)}, n)
                             /\ Cardinality(ss.visited) >= 2

\* C8: no path returned by forward_taint_paths_store or backward_taint_paths_store
\* contains a sanitizer node id.
C8_NoSanitizerOnPath ==
  (sg.alg = "taint" /\ ss.pc = "done")
    => \A k \in DOMAIN ss.found : Range(ss.found[k]) \cap sg.sanitizer_sites = {}

\* C8, the two synthetic graphs: source -> sanitizer -> sink yields no path;
\* source -> sink yields exactly one path.
C8_Synthetic ==
  (sg.alg = "taint" /\ ss.pc = "done" /\ sg.entry = "forward"
     /\ sg.source_sites = {"n1"} /\ sg.sink_sites = {"n3"} /\ sg.max_steps = MaxSteps)
    => /\ (sg.sanitizer_sites = {"n2"}
            /\ sg.edges = {[src |-> "n1", dst |-> "n2", kind |-> "DDG"],
                           [src |-> "n2", dst |-> "n3", kind |-> "DDG"]})
           => ss.found = <<>>
       /\ (sg.sanitizer_sites = {}
            /\ sg.edges = {[src |-> "n1", dst |-> "n3", kind |-> "DDG"]})
           => ss.found = << <<"n1", "n3">> >>

\* the revisions of the committed store whose created_at is greatest
LatestRevs == {r.rev : r \in {x \in committed.revisions :
                                \A o \in committed.revisions : o.created_at <= x.created_at}}
KnownRevs == {r.rev : r \in committed.revisions}

\* C9: a tool call that omits rev answers from the revision whose created_at is
\* greatest; a tool call that names a revision the store does not have returns
\* ok = false; no call answers from a revision other than the one selected.
C9_RevisionSelector ==
  (obs.kind = "tool" /\ obs.outcome = "returned") =>
    /\ (obs.rev_arg = Omitted /\ committed.revisions # {})
         => (obs.result.ok /\ obs.result.data.rev \in LatestRevs)
    /\ (obs.rev_arg \notin {Omitted, ""} /\ obs.rev_arg \notin KnownRevs) => ~obs.result.ok
    /\ (obs.result.ok /\ obs.rev_arg \notin {Omitted, ""}) => obs.result.data.rev = obs.rev_arg
    /\ obs.result.ok =>
         \A sid \in obs.result.data.symbols :
           \E x \in committed.symbols : x.symbol_id = sid /\ VisibleAt(committed, obs.result.data.rev, x)

C9_Witness ==
  /\ obs.kind = "tool" /\ obs.outcome = "returned" /\ obs.rev_arg = Omitted
  /\ KnownRevs = {"base", "head"}
  /\ obs.result.ok /\ obs.result.data.rev = "base"
  /\ obs.result.data.symbols # {}

C9_WitnessUnknown ==
  /\ obs.kind = "tool" /\ obs.outcome = "returned" /\ obs.rev_arg = "head"
  /\ KnownRevs = {"base"}
  /\ ~obs.result.ok

\* C10: every call of a tool function returns an ok/fail envelope, whatever the
\* input and the state of the store; no exception leaves the function.
C10_EnvelopeDiscipline ==
  obs.kind = "tool" => obs.outcome = "returned"

\* ---------------------------------------------------------------------- C11
\* the CALL, CFG_IP_CALL and CFG_IP_RET rows a store should hold for its calls rows
DerivedFor(c) ==
  {[blob_hash |-> c.blob_hash, file_id |-> c.file_id, src |-> c.src_node,
    dst |-> c.dst_symbol, kind |-> "CALL"],
   [blob_hash |-> c.blob_hash, file_id |-> c.file_id, src |-> c.src_node,
    dst |-> c.dst_symbol, kind |-> "CFG_IP_CALL"],
   [blob_hash |-> c.blob_hash, file_id |-> c.file_id, src |-> c.dst_symbol,
    dst |-> c.src_node, kind |-> "CFG_IP_RET"]}

ResolvedRows(d) == {c \in BagToSet(d.calls) : c.resolved = 1 /\ c.dst_symbol # NULL}

\* every derived edge occurs as often as resolved calls rows ask for it, and no other
\* derived edge exists
DerivedMirror(d) ==
  LET derived == {e \in BagToSet(d.edges) : e.kind \in DerivedKinds}
      wanted == UNION {DerivedFor(c) : c \in ResolvedRows(d)}
  IN /\ derived = wanted
     /\ \A e \in wanted :
          d.edges[e] = SumCounts(d.calls, {c \in ResolvedRows(d) : e \in DerivedFor(c)})

\* C11: a query on another connection never observes a half-written revision: what it
\* reads is the last committed state, which holds no revision row written by the run
\* in progress, no file_versions row without its revision row, and derived edges that
\* mirror the resolved calls (never the store between the DELETE and the INSERTs)
C11_ReaderIsolation ==
  obs.kind = "read" =>
    /\ obs.snapshot = committed
    /\ obs.during # "idle" => \A r \in obs.snapshot.revisions : r.created_at # obs.run
    /\ \A fv \in obs.snapshot.file_versions : \E r \in obs.snapshot.revisions : r.rev = fv.rev
    /\ DerivedMirror(obs.snapshot)

\* a read between the DELETE and the INSERTs of a run that re-indexes a committed
\* revision holding derived edges
C11_Witness ==
  /\ obs.kind = "read" /\ obs.during = "insert" /\ pc = "insert"
  /\ \E e \in BagToSet(committed.edges) : e.kind \in DerivedKinds
  /\ \A e \in BagToSet(db.edges) : e.kind \notin DerivedKinds
  /\ \E r \in committed.revisions : r.rev = cur.rev

\* a read while the run has written its revision row and some of its files
C11_WitnessFiles ==
  /\ obs.kind = "read" /\ obs.during = "files" /\ pc = "files"
  /\ cur.files_done > 0 /\ todo # <<>>

\* ---------------------------------------------------------------------- C12
\* C12: concurrent indexing runs on one database file are serialized: a run started
\* while another run is inside its mutating sequence waits for it and then performs
\* its own; it never ends with an error instead
C12_RunsSerialized ==
  obs.kind = "run2" => obs.status = "waiting"

\* ---------------------------------------------------------------------- C13
\* the paths scan_repo returned, over all languages
ScanOutput == UNION {Range(ss.out[l]) : l \in ScanLangs}

\* C13: a file with a directory named in exclude_dirs (node_modules, .git, ...) among
\* its ancestors is never in scan_repo's output
C13_ScanExclusion ==
  (sg.alg = "scan" /\ ss.pc = "done") =>
    \A f \in sg.tree :
      (\E i \in 1..Len(f) - 1 : f[i] \in sg.config.exclude_dirs) => sg.root \o f \notin ScanOutput

\* a tree with a source file below node_modules/src and one outside, scanned with the
\* default configuration: the second is returned
C13_Witness ==
  /\ sg.alg = "scan" /\ ss.pc = "done"
  /\ sg.config.exclude_dirs = DEFAULT_EXCLUDE_DIRS
  /\ <<"node_modules", "src", "a.py">> \in sg.tree
  /\ ss.out["python"] = <<sg.root \o <<"src", "a.py">>>>

\* ---------------------------------------------------------------------- C14
\* the names a module's top-level statements bind when it is executed
PyBound(body) ==
  UNION {IF body[i].type = "Assign"
           THEN UNION {Range(body[i].targets[j].ids) : j \in 1..Len(body[i].targets)}
           ELSE {body[i].name} : i \in 1..Len(body)}

\* the value of __all__ after the module ran (the last assignment wins)
PyAll(body) ==
  LET at == {i \in 1..Len(body) : body[i].type = "Assign"
                                  /\ \E j \in 1..Len(body[i].targets) :
                                       body[i].targets[j] = NameT("__all__")}
  IN IF at = {} THEN {} ELSE body[CHOOSE i \in at : \A j \in at : j <= i].value

\* `from pkg.mod import foo` where /repo/pkg/mod.py is stored with its blob
TargetModuleStored ==
  /\ sg.alg = "import" /\ ss.pc = "done"
  /\ sg.blobs /\ sg.repo_root_hint = RepoRoot
  /\ sg.from_module = [dots |-> 0, parts |-> <<"pkg", "mod">>, is_path |-> FALSE]
  /\ <<"repo", "pkg", "mod.py">> \in sg.files
  /\ sg.name = "foo"

\* C14: resolve_import for python succeeds for every name bound at module scope of the
\* target module, whatever __all__ says; for a name not bound there (and not a
\* submodule file) it succeeds iff __all__ contains the name and the module defines
\* __getattr__
C14_AllIndependence ==
  TargetModuleStored =>
    IF sg.name \in PyBound(sg.module)
      THEN ss.result.ok
      ELSE ss.result.ok <=> (sg.name \in PyAll(sg.module) /\ "__getattr__" \in PyBound(sg.module))

\* ---------------------------------------------------------------------- C16
\* the files a module spec designates: below the repository root for an absolute
\* spec, below the importer's directory moved up once per extra leading dot for a
\* relative one
Designated ==
  IF sg.from_module.is_path THEN {sg.from_module.parts}
  ELSE IF sg.from_module.dots = 0 THEN Range(py_candidates(sg.repo_root_hint, sg.from_module.parts))
  ELSE IF sg.importer_file_path = NULL THEN {}
  ELSE Range(py_candidates(SubSeq(sg.importer_file_path, 1,
                                  Len(sg.importer_file_path) - sg.from_module.dots),
                           sg.from_module.parts))

\* the submodule files of a designated package
DesignatedSubmodules ==
  UNION {{path_parent(d) \o <<py[sg.name]>>, path_parent(d) \o <<sg.name, "__init__.py">>} :
           d \in {x \in Designated : x[Len(x)] = "__init__.py"}}

\* C16: resolve_import for python returns success only when the file it reports is the
\* file the module spec designates (or a submodule file of the designated package),
\* stored at the revision; a file elsewhere that ends with the same relative path is
\* never accepted
C16_NeverGuess ==
  (sg.alg = "import" /\ ss.pc = "done" /\ ss.result.ok) =>
    \A i \in 1..Len(ss.results) :
      ss.results[i] \in (Designated \cup DesignatedSubmodules) \cap sg.files

\* ---------------------------------------------------------------------- C15
\* the one stored symbol named like the callee of calls row c, if it is the only
\* one and is declared in a file of revision R other than file version fv
UniqueCallee(c, fv, R) ==
  {s \in committed.symbols :
     /\ s.name = c.dst_name
     /\ \A o \in committed.symbols : o.name = c.dst_name => o = s
     /\ \E fv2 \in committed.file_versions :
          fv2.rev = R /\ fv2.blob_hash = s.blob_hash /\ fv2.file_id # fv.file_id}

\* C15: after index_repository indexed R, for every call site in a file of R whose
\* callee name is the name of exactly one symbol, declared in another file of R,
\* cpg_callgraph(call site, direction="out", rev=R) returns an edge of kind CALL or
\* CFG_IP_CALL from the call site to that symbol's id
C15_EndToEndCallGraph ==
  (obs.kind = "callgraph" /\ obs.outcome = "returned" /\ obs.direction = "out"
   /\ obs.rev_arg \in Revs /\ obs.result.ok) =>
    \A fv \in committed.file_versions, c \in BagToSet(committed.calls) :
      (fv.rev = obs.rev_arg /\ c.blob_hash = fv.blob_hash /\ c.src_node = obs.node) =>
        \A s \in UniqueCallee(c, fv, obs.rev_arg) :
          \E e \in obs.result.data.edges :
            e.kind \in {"CALL", "CFG_IP_CALL"} /\ e.src = obs.node /\ e.dst = s.symbol_id

\* ---------------------------------------------------------------------- C17
\* C17: after any sequence of put_file_artifacts and resolve_calls that ends with
\* resolve_calls, the CALL, CFG_IP_CALL and CFG_IP_RET edges are exactly one CALL
\* src->dst, one CFG_IP_CALL src->dst and one CFG_IP_RET dst->src per calls row with
\* resolved = 1 and a dst_symbol, and another resolve_calls changes neither calls nor
\* edges
C17_DerivedEdgesMirrorCalls ==
  (sg.alg = "store_api" /\ ss.pc = "calls" /\ obs.kind = "resolve_calls") =>
    /\ DerivedMirror(db)
    /\ resolve_calls(db).calls = db.calls
    /\ resolve_calls(db).edges = db.edges

\* resolve_calls ran on a store that held derived edges put by an interprocedural
\* build, an unresolved call it could resolve, and a call with no symbol to resolve to
C17_Witness ==
  /\ sg.alg = "store_api" /\ ss.pc = "calls" /\ obs.kind = "resolve_calls"
  /\ \E e \in BagToSet(obs.before.edges) : e.kind \in DerivedKinds
  /\ \E c \in BagToSet(obs.before.calls) :
       c.resolved = 0 /\ \E s \in db.symbols : s.name = c.dst_name
  /\ \E c \in BagToSet(db.calls) : c.resolved = 0
  /\ \E e \in BagToSet(db.edges) : e.kind = "CALL" /\ db.edges[e] > 1

\* ---------------------------------------------------------------------- C18
\* C18: every call record is persisted unresolved and resolved only by the global
\* pass, so after index_repository completes every calls row with resolved = 1 has
\* dst_symbol equal to the smallest symbol_id among all stored symbols whose name is
\* its dst_name
C18_FirstByIdResolution ==
  (obs.kind = "run" /\ obs.status = "committed") =>
    \A c \in BagToSet(committed.calls) :
      c.resolved = 1 =>
        /\ c.dst_symbol \in {s.symbol_id : s \in committed.symbols}
        /\ \A s \in committed.symbols :
             s.name = c.dst_name => (s.symbol_id = c.dst_symbol \/ SymIdLess(c.dst_symbol, s.symbol_id))

\* ---------------------------------------------------------------------- C19
\* an edge leads from a to b in the direction of the search
Leads(a, b) ==
  \E e \in sg.edges : IF sg.direction = "out" THEN e.src = a /\ e.dst = b
                                              ELSE e.dst = a /\ e.src = b

\* C19: the list a forward or backward slice returns, in memory or on the store, holds
\* no node id twice, starts with the distinct criteria in the order given, and lists
\* every other node after a node it was discovered from
C19_SliceDiscoveryOrder ==
  (sg.alg \in {"mem", "store"} /\ ss.pc = "done") =>
    LET out == ss.out
        distinct == dedupe(sg.criteria, {})
    IN /\ \A i, j \in 1..Len(out) : i # j => out[i] # out[j]
       /\ \A i \in 1..Min(Len(distinct), Len(out)) : out[i] = distinct[i]
       /\ \A k \in 1..Len(out) :
            out[k] \notin Range(sg.criteria) => \E j \in 1..k - 1 : Leads(out[j], out[k])

\* ---------------------------------------------------------------------- C20
\* C20: a slice, in memory or on the store, follows only edges whose kind is in the
\* allow-list (by default DDG, CFG, CFG_BRANCH, CFG_IP_CALL, CFG_IP_RET, CALL): a node
\* that is not a criterion is in the result only if an allow-listed edge leads to it
\* from an earlier node of the result; an AST edge is never followed
C20_SliceEdgeAllowList ==
  (sg.alg \in {"mem", "store"} /\ ss.pc = "done") =>
    \A k \in 1..Len(ss.out) :
      ss.out[k] \notin Range(sg.criteria) =>
        \E j \in 1..k - 1 : \E e \in sg.edges :
          /\ e.kind \in DEFAULT_EDGE_POLICY
          /\ IF sg.direction = "out" THEN e.src = ss.out[j] /\ e.dst = ss.out[k]
                                     ELSE e.dst = ss.out[j] /\ e.src = ss.out[k]

\* ---------------------------------------------------------------------- C21
\* the call sites _paths starts from and the call sites it stops at: source and sink
\* sites in the forward search, the two roles swapped in the backward search
PathsSources == IF sg.entry = "forward" THEN sg.source_sites ELSE sg.sink_sites

\* p[i] to p[i+1] is a stored edge of an allowed kind, followed in the search direction
TaintHop(a, b) ==
  \E e \in sg.edges :
    /\ e.kind \in TaintEdgeKinds
    /\ IF PathsDirection = "out" THEN e.src = a /\ e.dst = b ELSE e.src = b /\ e.dst = a

\* everything C21 says of a returned path except its length
TaintPathShape(p) ==
  /\ Len(p) >= 1
  /\ p[1] \in PathsSources
  /\ p[Len(p)] \in PathsSinks
  /\ \A i \in 1..Len(p) - 1 : p[i] \notin PathsSinks
  /\ \A i, j \in 1..Len(p) : i # j => p[i] # p[j]
  /\ \A i \in 1..Len(p) - 1 : TaintHop(p[i], p[i + 1])

\* C21 as stated: every path returned by the store-backed taint search starts at a
\* start site, ends at a stop site, has no stop site before its last element,
\* repeats no node, joins consecutive nodes by stored edges of allowed kinds in the
\* search direction and has at most max_steps nodes; at most max_paths paths are
\* returned.
C21_TaintPathsWellFormed ==
  (sg.alg = "taint" /\ ss.pc = "done")
    => /\ Len(ss.found) <= sg.max_paths
       /\ \A k \in DOMAIN ss.found :
            TaintPathShape(ss.found[k]) /\ Len(ss.found[k]) <= sg.max_steps

\* C21 amended: the same, a returned path having at most max_steps nodes or being
\* the one-node path of a start site that is itself a stop site (which is returned
\* whatever max_steps is).
C21_TaintPathsWellFormedFromOne ==
  (sg.alg = "taint" /\ ss.pc = "done")
    => /\ Len(ss.found) <= sg.max_paths
       /\ \A k \in DOMAIN ss.found :
            /\ TaintPathShape(ss.found[k])
            /\ Len(ss.found[k]) <= sg.max_steps \/ Len(ss.found[k]) = 1

\* the search returned because max_paths was reached, with a start site left over, and
\* a returned path is as long as max_steps allows
C21_Witness ==
  /\ sg.alg = "taint" /\ ss.pc = "done"
  /\ ss.i <= Len(ss.sources)
  /\ \E k \in DOMAIN ss.found : Len(ss.found[k]) = sg.max_steps /\ sg.max_steps >= 2

\* ---------------------------------------------------------------------- C22
\* the edges of an allowed kind that belong to a file version of the queried revision
ReachEdgeSet ==
  {[src |-> e.src, dst |-> e.dst, kind |-> e.kind] :
     e \in {x \in BagToSet(committed.edges) :
              x.kind \in DEFAULT_EDGE_KINDS /\ VisibleAt(committed, ss.result.data.rev, x)}}

\* b is reached from a along at most k edges of E
RECURSIVE Within(_, _, _, _)
Within(E, a, b, k) ==
  \/ a = b
  \/ k > 0 /\ \E e \in E : e.src = a /\ Within(E, e.dst, b, k - 1)

\* C22: whenever cpg_reachability returns reachable = true, path.node_ids starts with
\* src_node_id and ends with dst_node_id, every consecutive pair is joined by an edge
\* of an allowed kind of the queried revision whose kind is the hop's edge_kinds entry,
\* edge_kinds has one entry per hop, and no path with fewer edges joins the two nodes
\* in that edge set.
C22_ReachabilityShortestPath ==
  (sg.alg = "bfs_paths" /\ sg.entry = "cpg_reachability" /\ ss.pc = "done"
     /\ ss.outcome = "returned" /\ ss.result.ok /\ ss.result.data.reachable)
    => LET p == ss.result.data.node_ids
           ks == ss.result.data.edge_kinds
       IN /\ Len(p) >= 1
          /\ p[1] = sg.starts[1]
          /\ p[Len(p)] = sg.stop_at
          /\ Len(ks) = Len(p) - 1
          /\ \A i \in 1..Len(p) - 1 :
               [src |-> p[i], dst |-> p[i + 1], kind |-> ks[i]] \in ReachEdgeSet
          /\ Len(p) >= 2 => ~Within(ReachEdgeSet, p[1], p[Len(p)], Len(p) - 2)

\* ---------------------------------------------------------------------- C23
\* the symbols pass 1 collects from all parsed files, in insertion order
Pass1Symbols ==
  LET RECURSIVE all(_)
      all(i) == IF i > Len(sg.parsed_files) THEN <<>>
                ELSE collect_symbols(sg.parsed_files[i], lang_of(sg.parsed_files[i]),
                                     content_hash(sg.parsed_files[i])) \o all(i + 1)
  IN all(1)

\* C23: in the graph build(parsed_files) returns, a call edge whose callee name is the
\* name of a same-language symbol collected from any parsed file is resolved (no
\* unresolved attribute) to the first such symbol in pass-1 insertion order; a call
\* edge with no same-language match keeps unresolved = "true" and the callee name as dst.
C23_TwoPassFirstDeclared ==
  (sg.alg = "build" /\ ss.pc = "done")
    => \A k \in DOMAIN ss.call_graph :
         LET e == ss.call_graph[k]
             match == SelectSeq(Pass1Symbols, LAMBDA s : s.name = e.name /\ s.lang = e.lang)
         IN IF match # <<>>
              THEN ~e.unresolved /\ e.dst = match[1].id
              ELSE e.unresolved /\ e.dst = e.name

\* ---------------------------------------------------------------------- C24
\* the rows of table t stored under the (file_id, blob_hash) pair of a file version
RowsOfVersion(t, fv) == {x \in t : x.file_id = fv.file_id /\ x.blob_hash = fv.blob_hash}

\* C24: after index_repository(rev) completes, every file_versions row of rev has
\* nodes rows stored with its blob_hash and its file_id, and the symbols and calls
\* rows of that content are stored under the same pair, also when another path has
\* byte-identical content.
C24_OwnArtifactsPerFile ==
  (obs.kind = "run" /\ obs.status = "committed") =>
    \A fv \in {x \in committed.file_versions : x.rev = obs.rev} :
      /\ RowsOfVersion(committed.nodes, fv) # {}
      /\ \A s \in committed.symbols :
           s.blob_hash = fv.blob_hash => RowsOfVersion(committed.symbols, fv) # {}
      /\ \A c \in BagToSet(committed.calls) :
           c.blob_hash = fv.blob_hash => RowsOfVersion(BagToSet(committed.calls), fv) # {}

\* ---------------------------------------------------------------------- C25
\* the revisions at which a row stored under (file_id, blob_hash) is visible
VisibleRevs(d, x) ==
  {fv.rev : fv \in {v \in d.file_versions : v.file_id = x.file_id /\ v.blob_hash = x.blob_hash}}

\* C25: after any sequence of index_repository runs, every resolved calls row that is
\* visible at a revision R has a dst_symbol whose symbols row is visible at R too.
C25_ResolutionInsideRevision ==
  (obs.kind = "run" /\ obs.status = "committed") =>
    \A c \in BagToSet(committed.calls) :
      (c.resolved = 1 /\ c.dst_symbol # NULL) =>
        \A R \in VisibleRevs(committed, c) :
          \E s \in committed.symbols : s.symbol_id = c.dst_symbol /\ R \in VisibleRevs(committed, s)

\* ---------------------------------------------------------------------- C26
\* a walk of at most k nodes leads from a to t along allowed edges in the search
\* direction, through no sanitizer and through no stop site other than t
RECURSIVE CleanWalk(_, _, _)
CleanWalk(a, t, k) ==
  /\ k >= 1
  /\ a \notin sg.sanitizer_sites
  /\ \/ a = t
     \/ /\ a \notin PathsSinks
        /\ \E b \in {e.src : e \in sg.edges} \cup {e.dst : e \in sg.edges} :
             TaintHop(a, b) /\ CleanWalk(b, t, k - 1)

\* C26: when the search returns fewer than max_paths paths (no node having more than
\* per_node_limit neighbours), every start site s and stop site t joined by a walk of
\* at most max_steps nodes along allowed edges, through no sanitizer and no other
\* stop site, have a returned path that starts at s and ends at t.
C26_TaintSearchComplete ==
  (sg.alg = "taint" /\ ss.pc = "done" /\ Len(ss.found) < sg.max_paths)
    => \A s \in PathsSources, t \in PathsSinks :
         CleanWalk(s, t, sg.max_steps)
           => \E k \in DOMAIN ss.found :
                ss.found[k][1] = s /\ ss.found[k][Len(ss.found[k])] = t

\* ---------------------------------------------------------------------- C27
\* C27: cpg_slice called with max_nodes = N, and cpg_query_forward /
\* cpg_query_backward called with max_visited = N, N >= 1, return at most N nodes
\* in data.nodes and visit at most N node ids, whatever the graph and the starts.
C27_ToolResultBudget ==
  (/\ sg.alg = "bfs_paths" /\ ss.pc = "done" /\ ss.outcome = "returned" /\ ss.result.ok
   /\ sg.entry \in {"cpg_slice", "cpg_query_forward", "cpg_query_backward"}
   /\ sg.max_nodes >= 1)
    => /\ Cardinality(ss.result.data.nodes) <= sg.max_nodes
       /\ Cardinality(ss.visited) <= sg.max_nodes

\* ---------------------------------------------------------------------- C28
\* the (path, blob hash) pairs file_versions maps for revision R
MappedAt(d, R) ==
  {<<(CHOOSE f \in d.files : f.file_id = fv.file_id).path, fv.blob_hash>> :
     fv \in {v \in d.file_versions : v.rev = R}}

\* C28: after index_repository(repo_root, rev) completes, the paths file_versions maps
\* for rev are exactly the files scan_repo returned in that run, each with the hash
\* of its current content; a path an earlier run mapped under the same rev label and
\* that is no longer scanned is not mapped any more.
C28_RevisionIsSnapshot ==
  (obs.kind = "run" /\ obs.status = "committed")
    => MappedAt(committed, obs.rev)
         = {<<p, content_hash(repo[p])>> : p \in Range(scan_repo(repo))}

\* a run under a label that an earlier run used, after a file of that earlier run
\* was removed from the tree and another was edited
C28_Witness ==
  /\ obs.kind = "run" /\ obs.status = "committed"
  /\ \E m \in MappedAt(obs.before, obs.rev) : repo[m[1]] = NoFile
  /\ \E m \in MappedAt(obs.before, obs.rev) :
       repo[m[1]] # NoFile /\ content_hash(repo[m[1]]) # m[2]

\* ---------------------------------------------------------------------- C29
\* C29: after index_repository completes, every resolved calls row has a dst_symbol
\* whose symbols row has the language of the file that holds the call site.
C29_ResolutionInsideLanguage ==
  (obs.kind = "run" /\ obs.status = "committed") =>
    \A c \in BagToSet(committed.calls) :
      (c.resolved = 1 /\ c.dst_symbol # NULL) =>
        \A f \in committed.files : f.file_id = c.file_id =>
          \E s \in committed.symbols : s.symbol_id = c.dst_symbol /\ s.lang = f.lang

\* ---------------------------------------------------------------------- C30
\* C30: every regular file under root that has a mapped extension, a size of at most
\* max_file_bytes, an allowed language and no excluded directory name among its path
\* components below root is present in scan_repo's output, whatever the names of the
\* directories above root.
C30_ScanInclusionBelowRoot ==
  (sg.alg = "scan" /\ ss.pc = "done") =>
    \A f \in sg.tree :
      LET name == f[Len(f)]
          lang == infer_language_name(name)
      IN (/\ lang # NoLang
          /\ st_size[name] <= max_file_bytes
          /\ (sg.config.include_langs # {} => lang \in sg.config.include_langs)
          /\ \A i \in 1..Len(f) : f[i] \notin sg.config.exclude_dirs)
           => \E k \in 1..Len(ss.out[lang]) : ss.out[lang][k] = sg.root \o f

====
